---- MODULE Spec2Model ----
(***************************************************************************)
(* A model of the rwarden_crypto crate: the tagged wire format             *)
(* "<ty>.<iv>|<ct>|<mac>", the symmetric cipher suite (AES-CBC with and    *)
(* without HMAC-SHA256) and the unwrapping of the protected symmetric key. *)
(*                                                                         *)
(* Bytes are the integers 0..255 and byte strings are sequences of them,   *)
(* with the lengths of the source (16-byte IV, 32-byte MAC, 16/32-byte     *)
(* keys).  A text is a sequence of characters, each a TLA+ string; a       *)
(* character knows its UTF-8 length.  The primitives of the external       *)
(* crates (aes, block-modes, hmac, hkdf, base64) are replaced by small     *)
(* computable functions with the same interface and the same algebra: a    *)
(* keyed permutation of 16-byte blocks, CBC chaining with XOR, PKCS#7      *)
(* padding, a keyed checksum of 32 bytes, RFC 4648 base64.                 *)
(***************************************************************************)
EXTENDS Integers, Sequences, FiniteSets, TLC

VARIABLES value, origin, text, call, derived, login, totp, session, register, cache, exec

vars == <<value, origin, text, call, derived, login, totp, session, register, cache, exec>>

\* the state of the crypto crate's values, and the state of the client
cryptoVars == <<value, origin, text, call>>

clientVars == <<derived, login, totp, session, register, cache, exec>>

\* the state of a registration, of the caches and of a request being executed
serviceVars == <<register, cache, exec>>

(***************************************************************************)
(* Lengths fixed by the types of the source.                               *)
(***************************************************************************)
IvLen == 16
MacLen == 32
Key256Len == 32
Key128Len == 16
BlockSize == 16
KeysLen == 64

(***************************************************************************)
(* Bounds of the exploration.                                              *)
(***************************************************************************)
NumKeys == 2
MaxTamperPlainLen == 1

(***************************************************************************)
(* Bytes and byte strings.                                                 *)
(***************************************************************************)
Byte == 0..255

RECURSIVE BitXor(_, _, _)
BitXor(a, b, n) ==
    IF n = 0 THEN 0
    ELSE ((a + b) % 2) + 2 * BitXor(a \div 2, b \div 2, n - 1)

Xor(a, b) == BitXor(a, b, 8)

Pow2(k) == CASE k = 0 -> 1 [] k = 1 -> 2 [] k = 2 -> 4 [] k = 3 -> 8
             [] k = 4 -> 16 [] k = 5 -> 32 [] k = 6 -> 64 [] OTHER -> 128

FlipBitOf(b, k) == IF (b \div Pow2(k)) % 2 = 1 THEN b - Pow2(k) ELSE b + Pow2(k)

Fill(n, b) == [i \in 1..n |-> b]

Ramp(n, a, s) == [i \in 1..n |-> (a + s * i) % 256]

\* sums by halving, so that the depth of the recursion stays logarithmic
RECURSIVE SumRange(_, _, _)
SumRange(s, lo, hi) ==
    IF lo > hi THEN 0
    ELSE IF lo = hi THEN s[lo]
    ELSE LET mid == (lo + hi) \div 2
         IN (SumRange(s, lo, mid) + SumRange(s, mid + 1, hi)) % 256

SumBytes(s) == SumRange(s, 1, Len(s))

WeightedSum(s) == SumRange([i \in 1..Len(s) |-> (i * s[i]) % 256], 1, Len(s))

(***************************************************************************)
(* Block cipher: a keyed permutation of 16-byte blocks.  The key has the   *)
(* length the cipher type fixes (16 for Aes128, 32 for Aes256); every key  *)
(* byte takes part.                                                        *)
(***************************************************************************)
KeyByte(key, i) ==
    IF Len(key) = Key256Len
    THEN (key[i] + 3 * key[i + BlockSize]) % 256
    ELSE key[i]

EncryptBlock(key, block) ==
    [i \in 1..BlockSize |->
        (block[(i % BlockSize) + 1] + KeyByte(key, i) + i) % 256]

DecryptBlock(key, block) ==
    [j \in 1..BlockSize |->
        LET i == IF j = 1 THEN BlockSize ELSE j - 1
        IN (block[i] + 512 - KeyByte(key, i) - i) % 256]

XorBlock(a, b) == [i \in 1..BlockSize |-> Xor(a[i], b[i])]

Pkcs7Pad(data) ==
    LET n == BlockSize - (Len(data) % BlockSize)
    IN data \o Fill(n, n)

\* Pkcs7::unpad: <<TRUE, prefix>> or <<FALSE, <<>>>>
Pkcs7Unpad(data) ==
    LET l == Len(data)
        n == data[l]
    IN IF l = 0 THEN <<FALSE, <<>>>>
       ELSE IF n = 0 \/ n > l THEN <<FALSE, <<>>>>
       ELSE IF \E i \in (l - n + 1)..(l - 1) : data[i] # n THEN <<FALSE, <<>>>>
       ELSE <<TRUE, SubSeq(data, 1, l - n)>>

RECURSIVE CbcEncryptBlocks(_, _, _)
CbcEncryptBlocks(key, prev, data) ==
    IF Len(data) = 0 THEN <<>>
    ELSE LET c == EncryptBlock(key, XorBlock(SubSeq(data, 1, BlockSize), prev))
         IN c \o CbcEncryptBlocks(key, c, SubSeq(data, BlockSize + 1, Len(data)))

RECURSIVE CbcDecryptBlocks(_, _, _)
CbcDecryptBlocks(key, prev, data) ==
    IF Len(data) = 0 THEN <<>>
    ELSE LET c == SubSeq(data, 1, BlockSize)
         IN XorBlock(DecryptBlock(key, c), prev)
            \o CbcDecryptBlocks(key, c, SubSeq(data, BlockSize + 1, Len(data)))

\* Cbc::<C, Pkcs7>::new_fix(GenericArray::from_slice(key), GenericArray::from_slice(iv)):
\* from_slice asserts that the slice has the length the cipher type fixes.
NewFixPanics(cipherKeyLen, key, iv) ==
    Len(key) # cipherKeyLen \/ Len(iv) # BlockSize

EncryptVec(key, iv, plaintext) == CbcEncryptBlocks(key, iv, Pkcs7Pad(plaintext))

\* decrypt_vec: <<TRUE, plaintext>> or <<FALSE, <<>>>> (BlockModeError)
DecryptVec(key, iv, ciphertext) ==
    IF Len(ciphertext) % BlockSize # 0 THEN <<FALSE, <<>>>>
    ELSE Pkcs7Unpad(CbcDecryptBlocks(key, iv, ciphertext))

(***************************************************************************)
(* HMAC-SHA256: a 32-byte keyed checksum of the data.  A key shorter than  *)
(* the hash's block is padded with zeros, as HMAC does.  The first two     *)
(* bytes weigh the sums twice, which keeps a chain of checksums of         *)
(* checksums from running into a fixed point.                              *)
(***************************************************************************)
HmacSha256(key, data) ==
    LET s == SumBytes(data)
        w == WeightedSum(data)
    IN [j \in 1..MacLen |->
          ((IF j <= Len(key) THEN key[j] ELSE 0)
             + (IF j <= 2 THEN 2 ELSE 1) * (IF j % 2 = 1 THEN s ELSE w)
             + Len(data) + j) % 256]


\* Hmac::verify: the recomputed tag against the stored one
MacVerifies(key, data, stored) == HmacSha256(key, data) = stored

(***************************************************************************)
(* HKDF-SHA256 in expand-only mode: 32 bytes from the key and the label.   *)
(***************************************************************************)
InfoCode(info) == IF info = "enc" THEN 1 ELSE 2

HkdfExpand(prk, info) ==
    [j \in 1..Key256Len |-> (5 * prk[j] + 97 * InfoCode(info) + 3 * j) % 256]

\* SourceKey::expand
expand(source_key) == <<HkdfExpand(source_key, "enc"), HkdfExpand(source_key, "mac")>>

(***************************************************************************)
(* Encrypted values and results of calls.                                  *)
(***************************************************************************)
Value(variant, iv, mac, ciphertext) ==
    [variant |-> variant, iv |-> iv, mac |-> mac, ciphertext |-> ciphertext]

NoValue == Value("None", <<>>, <<>>, <<>>)

\* SymmetricKey { enc, mac: Option<[u8; 32]> }
SymmetricKey(enc, hasMac, mac) == [enc |-> enc, hasMac |-> hasMac, mac |-> mac]

NoKey == SymmetricKey(<<>>, FALSE, <<>>)

Ret(status, err, bytes, val, key, calls, found, expected) ==
    [status |-> status, err |-> err, bytes |-> bytes, val |-> val, key |-> key,
     calls |-> calls, found |-> found, expected |-> expected, wrapper |-> ""]

OkBytes(bytes, calls) == Ret("Ok", "", bytes, NoValue, NoKey, calls, -1, <<>>)
OkValue(val) == Ret("Ok", "", <<>>, val, NoKey, <<>>, -1, <<>>)
OkKey(key, calls) == Ret("Ok", "", <<>>, NoValue, key, calls, -1, <<>>)
Err(err, calls) == Ret("Err", err, <<>>, NoValue, NoKey, calls, -1, <<>>)
Panic(why, calls) == Ret("Panic", why, <<>>, NoValue, NoKey, calls, -1, <<>>)
NoRet == Ret("None", "", <<>>, NoValue, NoKey, <<>>, -1, <<>>)

\* InvalidEncryptionType { expected, found }
ErrTy(found, expected) ==
    Ret("Err", "InvalidEncryptionType", <<>>, NoValue, NoKey, <<>>, found, expected)

\* map_err(ParseError::Variant): the enum's error wraps the variant's
MapErr(wrapper, ret) == IF ret.status = "Err" THEN [ret EXCEPT !.wrapper = wrapper] ELSE ret

(***************************************************************************)
(* AesCbc256 (tag 0).                                                      *)
(***************************************************************************)
AesCbc256_encrypt(plaintext, enc, iv) ==
    IF NewFixPanics(Key256Len, enc, iv) THEN Panic("GenericArray::from_slice", <<>>)
    ELSE OkValue(Value("AesCbc256", iv, <<>>, EncryptVec(enc, iv, plaintext)))

\* The cipher is built as Cbc::<Aes128, Pkcs7> from the 32-byte key.
AesCbc256_decrypt(v, enc) ==
    IF NewFixPanics(Key128Len, enc, v.iv) THEN Panic("GenericArray::from_slice", <<"Cbc::new_fix">>)
    ELSE LET r == DecryptVec(enc, v.iv, v.ciphertext)
         IN IF r[1] THEN OkBytes(r[2], <<"Cbc::new_fix", "decrypt_vec">>)
            ELSE Err("BlockModeError", <<"Cbc::new_fix", "decrypt_vec">>)

(***************************************************************************)
(* The authenticated variants: AesCbc128HmacSha256 (tag 1),                *)
(* AesCbc256HmacSha256 (tag 2) and CipherString.                           *)
(***************************************************************************)
\* an encrypt whose MAC is keyed with the encryption key
AesCbcHmac_encrypt_mac_under_enc_key(variant, keyLen, plaintext, enc, mac, iv) ==
    IF NewFixPanics(keyLen, enc, iv) THEN Panic("GenericArray::from_slice", <<>>)
    ELSE LET ciphertext == EncryptVec(enc, iv, plaintext)
         IN OkValue(Value(variant, iv, HmacSha256(enc, iv \o ciphertext), ciphertext))

AesCbcHmac_encrypt(variant, keyLen, plaintext, enc, mac, iv) ==
    IF NewFixPanics(keyLen, enc, iv) THEN Panic("GenericArray::from_slice", <<>>)
    ELSE LET ciphertext == EncryptVec(enc, iv, plaintext)
         IN OkValue(Value(variant, iv, HmacSha256(mac, iv \o ciphertext), ciphertext))

AesCbcHmac_decrypt(keyLen, v, enc, mac) ==
    IF ~MacVerifies(mac, v.iv \o v.ciphertext, v.mac)
    THEN Err("MacVerification", <<"Hmac::verify">>)
    ELSE IF NewFixPanics(keyLen, enc, v.iv)
    THEN Panic("GenericArray::from_slice", <<"Hmac::verify", "Cbc::new_fix">>)
    ELSE LET r == DecryptVec(enc, v.iv, v.ciphertext)
         IN IF r[1] THEN OkBytes(r[2], <<"Hmac::verify", "Cbc::new_fix", "decrypt_vec">>)
            ELSE Err("BlockMode", <<"Hmac::verify", "Cbc::new_fix", "decrypt_vec">>)

AesCbc128HmacSha256_encrypt(plaintext, enc, mac, iv) ==
    AesCbcHmac_encrypt("AesCbc128HmacSha256", Key128Len, plaintext, enc, mac, iv)

AesCbc128HmacSha256_decrypt(v, enc, mac) == AesCbcHmac_decrypt(Key128Len, v, enc, mac)

AesCbc256HmacSha256_encrypt(plaintext, enc, mac, iv) ==
    AesCbcHmac_encrypt("AesCbc256HmacSha256", Key256Len, plaintext, enc, mac, iv)

\* a decrypt that runs the block cipher before it verifies the MAC
AesCbc256HmacSha256_decrypt_cbc_first(v, enc, mac) ==
    IF NewFixPanics(Key256Len, enc, v.iv)
    THEN Panic("GenericArray::from_slice", <<"Cbc::new_fix">>)
    ELSE LET r == DecryptVec(enc, v.iv, v.ciphertext)
         IN IF ~r[1] THEN Err("BlockMode", <<"Cbc::new_fix", "decrypt_vec">>)
            ELSE IF ~MacVerifies(mac, v.iv \o v.ciphertext, v.mac)
            THEN Err("MacVerification", <<"Cbc::new_fix", "decrypt_vec", "Hmac::verify">>)
            ELSE OkBytes(r[2], <<"Cbc::new_fix", "decrypt_vec", "Hmac::verify">>)

\* a decrypt that does not verify the MAC
AesCbc256HmacSha256_decrypt_unverified(v, enc, mac) ==
    IF NewFixPanics(Key256Len, enc, v.iv)
    THEN Panic("GenericArray::from_slice", <<"Cbc::new_fix">>)
    ELSE LET r == DecryptVec(enc, v.iv, v.ciphertext)
         IN IF r[1] THEN OkBytes(r[2], <<"Cbc::new_fix", "decrypt_vec">>)
            ELSE Err("BlockMode", <<"Cbc::new_fix", "decrypt_vec">>)

AesCbc256HmacSha256_decrypt(v, enc, mac) == AesCbcHmac_decrypt(Key256Len, v, enc, mac)

\* an encrypt whose MAC covers the ciphertext but not the IV
CipherString_encrypt_mac_without_iv(plaintext, enc, mac, iv) ==
    LET ciphertext == EncryptVec(enc, iv, plaintext)
    IN OkValue(Value("CipherString", iv, HmacSha256(mac, ciphertext), ciphertext))

CipherString_encrypt(plaintext, enc, mac, iv) ==
    AesCbcHmac_encrypt("CipherString", Key256Len, plaintext, enc, mac, iv)

CipherString_decrypt_raw(v, enc, mac) == AesCbcHmac_decrypt(Key256Len, v, enc, mac)

\* String::from_utf8: is the byte string well-formed UTF-8
IsContinuation(b) == b \in 128..191

LeadLen(b) ==
    IF b < 128 THEN 1
    ELSE IF b \in 194..223 THEN 2
    ELSE IF b \in 224..239 THEN 3
    ELSE IF b \in 240..244 THEN 4
    ELSE 0

SecondByteOk(lead, b) ==
    CASE lead = 224 -> b \in 160..191
      [] lead = 237 -> b \in 128..159
      [] lead = 240 -> b \in 144..191
      [] lead = 244 -> b \in 128..143
      [] OTHER -> IsContinuation(b)

ValidUtf8(bytes) ==
    LET n == Len(bytes) IN
    /\ n > 0 => ~IsContinuation(bytes[1])
    /\ \A i \in 1..n :
         ~IsContinuation(bytes[i]) =>
            LET l == LeadLen(bytes[i]) IN
            /\ l > 0
            /\ i + l - 1 <= n
            /\ \A j \in (i + 1)..(i + l - 1) : IsContinuation(bytes[j])
            /\ l > 1 => SecondByteOk(bytes[i], bytes[i + 1])
            /\ i + l <= n => ~IsContinuation(bytes[i + l])

\* a decrypt that reports every failure as InvalidUtf8
CipherString_decrypt_one_error_kind(v, enc, mac) ==
    LET r == CipherString_decrypt_raw(v, enc, mac)
    IN IF r.status = "Ok" /\ ValidUtf8(r.bytes) THEN r
       ELSE Err("InvalidUtf8", r.calls)

\* CipherString::decrypt and decrypt_with_keys: the plaintext as a String
CipherString_decrypt(v, enc, mac) ==
    LET r == CipherString_decrypt_raw(v, enc, mac)
    IN IF r.status # "Ok" THEN MapErr("Other", r)
       ELSE IF ValidUtf8(r.bytes) THEN r
       ELSE Err("InvalidUtf8", r.calls)

(***************************************************************************)
(* SymmetricEncryption: the enum over tags 0, 1, 2, driven by SymmetricKey.*)
(***************************************************************************)
SymmetricEncryption_encrypt(plaintext, params, iv) ==
    IF params.hasMac
    THEN AesCbc256HmacSha256_encrypt(plaintext, params.enc, params.mac, iv)
    ELSE AesCbc256_encrypt(plaintext, params.enc, iv)

\* a dispatch that verifies a tag-2 value under the encryption key when the MAC key
\* is missing
SymmetricEncryption_decrypt_enc_as_mac(v, params) ==
    CASE v.variant = "AesCbc256" -> AesCbc256_decrypt(v, params.enc)
      [] v.variant = "AesCbc128HmacSha256" -> Err("UnsupportedEncryptionType", <<>>)
      [] OTHER ->
           AesCbc256HmacSha256_decrypt(v, params.enc,
                                       IF params.hasMac THEN params.mac ELSE params.enc)

SymmetricEncryption_decrypt(v, params) ==
    CASE v.variant = "AesCbc256" -> AesCbc256_decrypt(v, params.enc)
      [] v.variant = "AesCbc128HmacSha256" -> Err("UnsupportedEncryptionType", <<>>)
      [] OTHER ->
           IF params.hasMac THEN AesCbc256HmacSha256_decrypt(v, params.enc, params.mac)
           ELSE Err("MacKeyMissing", <<>>)

(***************************************************************************)
(* SymmetricKey::new: unwrap the protected symmetric key.                  *)
(***************************************************************************)
\* the key parameters SymmetricKey::new hands to the protected key's decrypt
SymmetricKey_new_params(source_key, protected_symmetric_key) ==
    IF protected_symmetric_key.variant = "AesCbc256"
    THEN SymmetricKey(source_key, FALSE, <<>>)
    ELSE SymmetricKey(expand(source_key)[1], TRUE, expand(source_key)[2])

SymmetricKey_new(source_key, protected_symmetric_key) ==
    LET v == protected_symmetric_key
        params == SymmetricKey_new_params(source_key, protected_symmetric_key) IN
    CASE v.variant = "AesCbc256" ->
           LET r == AesCbc256_decrypt(v, params.enc)
           IN IF r.status # "Ok" THEN r
              ELSE IF Len(r.bytes) # Key256Len THEN Err("InvalidLength", r.calls)
              ELSE OkKey(SymmetricKey(r.bytes, FALSE, <<>>), r.calls)
      [] v.variant = "AesCbc128HmacSha256" -> Err("UnsupportedEncryptionType", <<>>)
      [] OTHER ->
           LET r == AesCbc256HmacSha256_decrypt(v, params.enc, params.mac)
           IN IF r.status # "Ok" THEN r
              ELSE IF Len(r.bytes) # KeysLen THEN Err("InvalidLength", r.calls)
              ELSE OkKey(SymmetricKey(SubSeq(r.bytes, 1, Key256Len), TRUE,
                                      SubSeq(r.bytes, Key256Len + 1, KeysLen)), r.calls)

(***************************************************************************)
(* Keys::new and Keys::derive: unwrap the protected symmetric key of a     *)
(* CipherString.                                                           *)
(***************************************************************************)
\* the key parameters Keys::new hands to decrypt_raw
Keys_new_params(source_key) ==
    SymmetricKey(expand(source_key)[1], TRUE, expand(source_key)[2])

\* keys[0..32] and keys[32..64]: a slice of a Vec panics when the range ends
\* beyond its length and takes no notice of what follows the range
Keys_derive(master_key, protected_symmetric_key) ==
    LET params == Keys_new_params(master_key)
        r == CipherString_decrypt_raw(protected_symmetric_key, params.enc, params.mac)
    IN IF r.status # "Ok" THEN r
       ELSE IF Len(r.bytes) < Key256Len
       THEN Panic("range end index 32 out of range for slice", r.calls)
       ELSE IF Len(r.bytes) < KeysLen
       THEN Panic("range end index 64 out of range for slice", r.calls)
       ELSE OkKey(SymmetricKey(SubSeq(r.bytes, 1, Key256Len), TRUE,
                               SubSeq(r.bytes, Key256Len + 1, KeysLen)), r.calls)

Keys_new(source_key, protected_symmetric_key) ==
    Keys_derive(source_key, protected_symmetric_key)

(***************************************************************************)
(* Texts.  A character is a TLA+ string; "U+00E9" stands for a character   *)
(* of two UTF-8 bytes, every other character is ASCII.                     *)
(***************************************************************************)
Utf8Len(c) == IF c = "U+00E9" THEN 2 ELSE 1

\* the byte offset of the k-th character boundary of the text
ByteOffset(chars, k) == SumRange([i \in 1..k |-> Utf8Len(chars[i])], 1, k)

IsCharBoundary(chars, b) == \E k \in 0..Len(chars) : ByteOffset(chars, k) = b

\* &value[0..b], for b a character boundary
StrPrefix(chars, b) ==
    SubSeq(chars, 1, CHOOSE k \in 0..Len(chars) : ByteOffset(chars, k) = b)

(***************************************************************************)
(* base64 (standard alphabet, with padding).                               *)
(***************************************************************************)
B64Chars ==
    <<"A", "B", "C", "D", "E", "F", "G", "H", "I", "J", "K", "L", "M", "N", "O", "P",
      "Q", "R", "S", "T", "U", "V", "W", "X", "Y", "Z", "a", "b", "c", "d", "e", "f",
      "g", "h", "i", "j", "k", "l", "m", "n", "o", "p", "q", "r", "s", "t", "u", "v",
      "w", "x", "y", "z", "0", "1", "2", "3", "4", "5", "6", "7", "8", "9", "+", "/">>

B64Set == {B64Chars[i] : i \in 1..64}

B64Val == [c \in B64Set |-> (CHOOSE i \in 1..64 : B64Chars[i] = c) - 1]

ByteAt(bytes, i) == IF i <= Len(bytes) THEN bytes[i] ELSE 0

\* base64::encode
Base64Encode(bytes) ==
    LET n == Len(bytes) IN
    [j \in 1..(4 * ((n + 2) \div 3)) |->
        LET g == 3 * ((j - 1) \div 4)
            pos == (j - 1) % 4
            b0 == ByteAt(bytes, g + 1)
            b1 == ByteAt(bytes, g + 2)
            b2 == ByteAt(bytes, g + 3)
        IN CASE pos = 0 -> B64Chars[(b0 \div 4) + 1]
             [] pos = 1 -> B64Chars[((b0 % 4) * 16 + (b1 \div 16)) + 1]
             [] pos = 2 -> IF g + 2 > n THEN "="
                           ELSE B64Chars[((b1 % 16) * 4 + (b2 \div 64)) + 1]
             [] OTHER -> IF g + 3 > n THEN "=" ELSE B64Chars[(b2 % 64) + 1]]

\* the number of '=' that end the text (at most two count as padding)
PadCount(chars) ==
    LET n == Len(chars) IN
    IF n >= 2 /\ chars[n] = "=" /\ chars[n - 1] = "=" THEN 2
    ELSE IF n >= 1 /\ chars[n] = "=" THEN 1
    ELSE 0

SextetAt(chars, i) == IF chars[i] = "=" THEN 0 ELSE B64Val[chars[i]]

\* base64::decode: <<TRUE, bytes>> or <<FALSE, <<>>>> (DecodeError)
Base64Decode(chars) ==
    LET n == Len(chars)
        pad == PadCount(chars)
        outLen == 3 * (n \div 4) - pad
    IN IF n % 4 # 0 THEN <<FALSE, <<>>>>
       ELSE IF \E i \in 1..(n - pad) : chars[i] \notin B64Set THEN <<FALSE, <<>>>>
       ELSE IF pad = 1 /\ SextetAt(chars, n - 1) % 4 # 0 THEN <<FALSE, <<>>>>
       ELSE IF pad = 2 /\ SextetAt(chars, n - 2) % 16 # 0 THEN <<FALSE, <<>>>>
       ELSE <<TRUE,
              [j \in 1..outLen |->
                 LET g == 4 * ((j - 1) \div 3)
                     pos == (j - 1) % 3
                 IN CASE pos = 0 -> SextetAt(chars, g + 1) * 4 + (SextetAt(chars, g + 2) \div 16)
                      [] pos = 1 -> (SextetAt(chars, g + 2) % 16) * 16
                                       + (SextetAt(chars, g + 3) \div 4)
                      [] OTHER -> (SextetAt(chars, g + 3) % 4) * 64 + SextetAt(chars, g + 4)]>>

(***************************************************************************)
(* The leading type tag: value[0..ty_end].parse::<usize>().                *)
(***************************************************************************)
Digits == <<"0", "1", "2", "3", "4", "5", "6", "7", "8", "9">>

DigitSet == {Digits[i] : i \in 1..10}

DigitVal(c) == (CHOOSE i \in 1..10 : Digits[i] = c) - 1

RECURSIVE DecimalValue(_, _)
DecimalValue(chars, n) ==
    IF n = 0 THEN 0 ELSE 10 * DecimalValue(chars, n - 1) + DigitVal(chars[n])

\* str::parse::<usize>: <<TRUE, n>> or <<FALSE, 0>> (ParseIntError)
ParseUsize(chars) ==
    LET digits == IF Len(chars) > 0 /\ chars[1] = "+" THEN Tail(chars) ELSE chars
    IN IF Len(digits) = 0 THEN <<FALSE, 0>>
       ELSE IF \E i \in 1..Len(digits) : digits[i] \notin DigitSet THEN <<FALSE, 0>>
       ELSE <<TRUE, DecimalValue(digits, Len(digits))>>

\* chars.position(|v| v == '.'): the number of characters before the first '.'
HasDot(chars) == \E i \in 1..Len(chars) : chars[i] = "."

TyEnd(chars) ==
    IF HasDot(chars)
    THEN (CHOOSE i \in 1..Len(chars) :
             chars[i] = "." /\ \A j \in 1..(i - 1) : chars[j] # ".") - 1
    ELSE Len(chars)

\* chars.as_str() after position(): what follows the first '.', or nothing
Rest(chars) ==
    IF HasDot(chars) THEN SubSeq(chars, TyEnd(chars) + 2, Len(chars)) ELSE <<>>

\* "panic", "error" or the number
ParseTy(chars) ==
    LET ty_end == TyEnd(chars) IN
    IF ~IsCharBoundary(chars, ty_end) THEN [kind |-> "panic", ty |-> 0]
    ELSE LET r == ParseUsize(StrPrefix(chars, ty_end))
         IN IF r[1] THEN [kind |-> "ok", ty |-> r[2]] ELSE [kind |-> "error", ty |-> 0]

\* str::split('|'): the pieces between the bars; there is always a first one
Bars(chars) == {i \in 1..Len(chars) : chars[i] = "|"}

NumParts(chars) == Cardinality(Bars(chars)) + 1

BarAt(chars, k) ==
    IF k = 0 THEN 0
    ELSE IF k > Cardinality(Bars(chars)) THEN Len(chars) + 1
    ELSE CHOOSE p \in Bars(chars) : Cardinality({q \in Bars(chars) : q < p}) = k - 1

Part(chars, k) == SubSeq(chars, BarAt(chars, k - 1) + 1, BarAt(chars, k) - 1)

(***************************************************************************)
(* Parse and Display of the five variants, of the two enums and of         *)
(* CipherString.                                                           *)
(***************************************************************************)
BoundaryPanic == Panic("byte index is not a char boundary", <<>>)

\* iv | ciphertext
AesCbc256_parse(str) ==
    LET t == ParseTy(str)
        rest == Rest(str)
        iv == Base64Decode(Part(rest, 1))
        ciphertext == Base64Decode(Part(rest, 2))
    IN IF t.kind = "panic" THEN BoundaryPanic
       ELSE IF t.kind = "error" THEN Err("ParseEncryptionType", <<>>)
       ELSE IF t.ty # 0 THEN ErrTy(t.ty, <<0>>)
       ELSE IF ~iv[1] THEN Err("Decode", <<>>)
       ELSE IF NumParts(rest) < 2 THEN Err("CiphertextNotFound", <<>>)
       ELSE IF ~ciphertext[1] THEN Err("Decode", <<>>)
       ELSE IF Len(iv[2]) # IvLen THEN Err("InvalidIvLength", <<>>)
       ELSE OkValue(Value("AesCbc256", iv[2], <<>>, ciphertext[2]))

\* iv | ciphertext | mac, shared by the three authenticated types; the names
\* of the errors differ between the enum's variants and CipherString
AesCbcHmac_parse(variant, tag, errs, str) ==
    LET t == ParseTy(str)
        rest == Rest(str)
        iv == Base64Decode(Part(rest, 1))
        ciphertext == Base64Decode(Part(rest, 2))
        mac == Base64Decode(Part(rest, 3))
    IN IF t.kind = "panic" THEN BoundaryPanic
       ELSE IF t.kind = "error" THEN Err(errs.parseTy, <<>>)
       ELSE IF t.ty # tag THEN
            (IF errs.badTy = "InvalidEncryptionType" THEN ErrTy(t.ty, <<tag>>)
             ELSE Err(errs.badTy, <<>>))
       ELSE IF ~iv[1] THEN Err("Decode", <<>>)
       ELSE IF NumParts(rest) < 2 THEN Err("CiphertextNotFound", <<>>)
       ELSE IF ~ciphertext[1] THEN Err("Decode", <<>>)
       ELSE IF NumParts(rest) < 3 THEN Err("MacNotFound", <<>>)
       ELSE IF ~mac[1] THEN Err("Decode", <<>>)
       ELSE IF Len(iv[2]) # IvLen THEN Err("InvalidIvLength", <<>>)
       ELSE IF Len(mac[2]) # MacLen THEN Err(errs.macLen, <<>>)
       ELSE OkValue(Value(variant, iv[2], mac[2], ciphertext[2]))

AesCbcHmacSha256ParseError ==
    [parseTy |-> "ParseEncryptionType", badTy |-> "InvalidEncryptionType",
     macLen |-> "InvalidMacLength"]

CipherParseError ==
    [parseTy |-> "ParseType", badTy |-> "UnsupportedEncryptionType",
     macLen |-> "InvalidMacKeyLength"]

AesCbc128HmacSha256_parse(str) ==
    AesCbcHmac_parse("AesCbc128HmacSha256", 1, AesCbcHmacSha256ParseError, str)

\* a parse that cuts an IV that is too long down to 16 bytes
AesCbc256HmacSha256_parse_truncating(str) ==
    LET t == ParseTy(str)
        rest == Rest(str)
        iv == Base64Decode(Part(rest, 1))
        ciphertext == Base64Decode(Part(rest, 2))
        mac == Base64Decode(Part(rest, 3))
    IN IF t.kind = "panic" THEN BoundaryPanic
       ELSE IF t.kind = "error" THEN Err("ParseEncryptionType", <<>>)
       ELSE IF t.ty # 2 THEN ErrTy(t.ty, <<2>>)
       ELSE IF ~iv[1] THEN Err("Decode", <<>>)
       ELSE IF NumParts(rest) < 2 THEN Err("CiphertextNotFound", <<>>)
       ELSE IF ~ciphertext[1] THEN Err("Decode", <<>>)
       ELSE IF NumParts(rest) < 3 THEN Err("MacNotFound", <<>>)
       ELSE IF ~mac[1] THEN Err("Decode", <<>>)
       ELSE IF Len(iv[2]) < IvLen THEN Err("InvalidIvLength", <<>>)
       ELSE IF Len(mac[2]) # MacLen THEN Err("InvalidMacLength", <<>>)
       ELSE OkValue(Value("AesCbc256HmacSha256", SubSeq(iv[2], 1, IvLen), mac[2],
                          ciphertext[2]))

AesCbc256HmacSha256_parse(str) ==
    AesCbcHmac_parse("AesCbc256HmacSha256", 2, AesCbcHmacSha256ParseError, str)

CipherString_parse(str) == AesCbcHmac_parse("CipherString", 2, CipherParseError, str)

\* ciphertext alone
Rsa2048Oaep_parse(variant, tag, str) ==
    LET t == ParseTy(str)
        ciphertext == Base64Decode(Part(Rest(str), 1))
    IN IF t.kind = "panic" THEN BoundaryPanic
       ELSE IF t.kind = "error" THEN Err("ParseEncryptionType", <<>>)
       ELSE IF t.ty # tag THEN ErrTy(t.ty, <<tag>>)
       ELSE IF ~ciphertext[1] THEN Err("Decode", <<>>)
       ELSE OkValue(Value(variant, <<>>, <<>>, ciphertext[2]))

Rsa2048OaepSha1_parse(str) == Rsa2048Oaep_parse("Rsa2048OaepSha1", 4, str)

Rsa2048OaepSha256_parse(str) == Rsa2048Oaep_parse("Rsa2048OaepSha256", 3, str)

SymmetricEncryption_parse(str) ==
    LET t == ParseTy(str)
    IN IF t.kind = "panic" THEN BoundaryPanic
       ELSE IF t.kind = "error" THEN Err("ParseEncryptionType", <<>>)
       ELSE CASE t.ty = 0 -> MapErr("AesCbc256", AesCbc256_parse(str))
              [] t.ty = 1 -> MapErr("AesCbc128HmacSha256", AesCbc128HmacSha256_parse(str))
              [] t.ty = 2 -> MapErr("AesCbc256HmacSha256", AesCbc256HmacSha256_parse(str))
              [] OTHER -> ErrTy(t.ty, <<0, 1, 2>>)

AsymmetricEncryption_parse(str) ==
    LET t == ParseTy(str)
    IN IF t.kind = "panic" THEN BoundaryPanic
       ELSE IF t.kind = "error" THEN Err("ParseEncryptionType", <<>>)
       ELSE CASE t.ty = 3 -> MapErr("Rsa2048OaepSha256", Rsa2048OaepSha256_parse(str))
              [] t.ty = 4 -> MapErr("Rsa2048OaepSha1", Rsa2048OaepSha1_parse(str))
              [] OTHER -> ErrTy(t.ty, <<3, 4>>)

\* Display
AesCbc256_fmt(v) ==
    <<"0", ".">> \o Base64Encode(v.iv) \o <<"|">> \o Base64Encode(v.ciphertext)

AesCbc128HmacSha256_fmt(v) ==
    <<"1", ".">> \o Base64Encode(v.iv) \o <<"|">> \o Base64Encode(v.ciphertext)
       \o <<"|">> \o Base64Encode(v.mac)

\* a Display that writes the MAC before the ciphertext
AesCbc256HmacSha256_fmt_mac_first(v) ==
    <<"2", ".">> \o Base64Encode(v.iv) \o <<"|">> \o Base64Encode(v.mac)
       \o <<"|">> \o Base64Encode(v.ciphertext)

AesCbc256HmacSha256_fmt(v) ==
    <<"2", ".">> \o Base64Encode(v.iv) \o <<"|">> \o Base64Encode(v.ciphertext)
       \o <<"|">> \o Base64Encode(v.mac)

CipherString_fmt(v) ==
    <<"2", ".">> \o Base64Encode(v.iv) \o <<"|">> \o Base64Encode(v.ciphertext)
       \o <<"|">> \o Base64Encode(v.mac)

Rsa2048OaepSha1_fmt(v) == <<"4", ".">> \o Base64Encode(v.ciphertext)

Rsa2048OaepSha256_fmt(v) == <<"3", ".">> \o Base64Encode(v.ciphertext)

\* to_string() of a value, through the enum's Display where there is one
to_string(v) ==
    CASE v.variant = "AesCbc256" -> AesCbc256_fmt(v)
      [] v.variant = "AesCbc128HmacSha256" -> AesCbc128HmacSha256_fmt(v)
      [] v.variant = "AesCbc256HmacSha256" -> AesCbc256HmacSha256_fmt(v)
      [] v.variant = "Rsa2048OaepSha1" -> Rsa2048OaepSha1_fmt(v)
      [] v.variant = "Rsa2048OaepSha256" -> Rsa2048OaepSha256_fmt(v)
      [] OTHER -> CipherString_fmt(v)

(***************************************************************************)
(* The inputs of the exploration: keys, IVs as the OS generator may draw   *)
(* them, plaintexts at the block and key-length boundaries.                *)
(***************************************************************************)
Key256(n) == Ramp(Key256Len, 17 * n, 2 * n + 1)
Key128(n) == Ramp(Key128Len, 29 * n, 2 * n + 3)

Keys256 == {Key256(n) : n \in 1..NumKeys}
Keys128 == {Key128(n) : n \in 1..NumKeys}

SourceKeys == {Ramp(Key256Len, 101 * n, 5) : n \in 1..NumKeys}

Ivs == {Ramp(IvLen, 9, 3), Fill(IvLen, 0)}

PlainLens == {0, 1, BlockSize - 1, BlockSize, BlockSize + 1,
              Key256Len - 1, Key256Len, Key256Len + 1,
              KeysLen - 1, KeysLen, KeysLen + 1}

\* the last two: a two-byte UTF-8 character, and bytes that are no UTF-8
Plaintexts ==
    {Ramp(n, 1, 1) : n \in PlainLens} \cup {Fill(n, BlockSize) : n \in PlainLens}
    \cup {<<195, 169>>, <<104, 255>>}

SymmetricVariants == {"AesCbc256", "AesCbc128HmacSha256", "AesCbc256HmacSha256"}
HmacVariants == {"AesCbc128HmacSha256", "AesCbc256HmacSha256", "CipherString"}

KeysOf(variant) == IF variant = "AesCbc128HmacSha256" THEN Keys128 ELSE Keys256

\* the key parameters a variant's encrypt and decrypt take
ParamsOf(variant) ==
    IF variant = "AesCbc256"
    THEN {SymmetricKey(enc, FALSE, <<>>) : enc \in Keys256}
    ELSE {SymmetricKey(enc, TRUE, mac) : enc \in KeysOf(variant), mac \in KeysOf(variant)}

\* a SymmetricKey that holds the 16-byte keys of a tag-1 value, each in the first
\* half of its 32 bytes
LegacyKeys ==
    {SymmetricKey(enc \o Fill(Key128Len, 0), TRUE, mac \o Fill(Key128Len, 0)) :
        enc \in Keys128, mac \in Keys128}

SymmetricKeys == ParamsOf("AesCbc256") \cup ParamsOf("AesCbc256HmacSha256") \cup LegacyKeys

Origin(by, plaintext, key, source_key, tampered) ==
    [by |-> by, plaintext |-> plaintext, key |-> key, source_key |-> source_key,
     tampered |-> tampered]

NoOrigin == Origin("None", <<>>, NoKey, <<>>, "")

Call(fn, key, ret) == [fn |-> fn, key |-> key, ret |-> ret]

NoCall == Call("None", NoKey, NoRet)

Text(chars) == [present |-> TRUE, chars |-> chars]

NoText == [present |-> FALSE, chars |-> <<>>]

\* the encrypt of the named type
EncryptOf(variant, plaintext, k, iv) ==
    CASE variant = "AesCbc256" -> AesCbc256_encrypt(plaintext, k.enc, iv)
      [] variant = "AesCbc128HmacSha256" -> AesCbc128HmacSha256_encrypt(plaintext, k.enc, k.mac, iv)
      [] variant = "AesCbc256HmacSha256" -> AesCbc256HmacSha256_encrypt(plaintext, k.enc, k.mac, iv)
      [] variant = "CipherString" -> CipherString_encrypt(plaintext, k.enc, k.mac, iv)
      [] OTHER -> SymmetricEncryption_encrypt(plaintext, k, iv)

\* the decrypt of the value's own type
DecryptOf(v, k) ==
    CASE v.variant = "AesCbc256" -> AesCbc256_decrypt(v, k.enc)
      [] v.variant = "AesCbc128HmacSha256" -> AesCbc128HmacSha256_decrypt(v, k.enc, k.mac)
      [] v.variant = "AesCbc256HmacSha256" -> AesCbc256HmacSha256_decrypt(v, k.enc, k.mac)
      [] OTHER -> CipherString_decrypt_raw(v, k.enc, k.mac)

(***************************************************************************)
(* The cipher suite as a state machine: a caller holds one encrypted value *)
(* (value), knows how it came about (origin) and sees the outcome of its   *)
(* last call (call).                                                       *)
(***************************************************************************)
\* no key derived, no login under way, no otpauth URL read, no session built
NoLogin == [pc |-> "idle"]

NoTotp == [pc |-> "idle"]

NoSession == [pc |-> "idle"]

NoRegister == [pc |-> "idle"]

NoCache == [pc |-> "idle"]

NoExec == [pc |-> "idle"]

InitCipher ==
    /\ value = NoValue
    /\ origin = NoOrigin
    /\ text = NoText
    /\ call = NoCall
    /\ derived = <<>>
    /\ login = NoLogin
    /\ totp = NoTotp
    /\ session = NoSession
    /\ register = NoRegister
    /\ cache = NoCache
    /\ exec = NoExec

\* T::encrypt(plaintext, params), the IV drawn by generate_iv()
Encrypt(variant, plaintext, k, iv) ==
    LET ret == EncryptOf(variant, plaintext, k, iv) IN
    /\ value = NoValue
    /\ value' = ret.val
    /\ origin' = Origin(variant, plaintext, k, <<>>, "")
    /\ call' = Call("encrypt", k, ret)
    /\ text' = NoText
    /\ UNCHANGED clientVars

\* the server wraps a key blob under the account's source key
ServerWrap(variant, plaintext, source_key, iv) ==
    LET k == IF variant = "AesCbc256"
             THEN SymmetricKey(source_key, FALSE, <<>>)
             ELSE SymmetricKey(expand(source_key)[1], TRUE, expand(source_key)[2])
        ret == EncryptOf(variant, plaintext, k, iv) IN
    /\ value = NoValue
    /\ value' = ret.val
    /\ origin' = Origin("server", plaintext, k, source_key, "")
    /\ call' = NoCall
    /\ text' = NoText
    /\ UNCHANGED clientVars

\* one bit of the stored mac, iv or ciphertext changes
FlipBit(field, i, bit) ==
    /\ origin.by = "AesCbc256HmacSha256"
    /\ origin.tampered = ""
    /\ call.fn = "encrypt"
    /\ Len(origin.plaintext) <= MaxTamperPlainLen
    /\ i \in 1..Len(value[field])
    /\ value' = [value EXCEPT ![field][i] = FlipBitOf(@, bit)]
    /\ origin' = [origin EXCEPT !.tampered = field]
    /\ call' = NoCall
    /\ text' = NoText
    /\ UNCHANGED clientVars

\* self.decrypt(params) of the value's own type
Decrypt(k) ==
    /\ value.variant \in SymmetricVariants \cup {"CipherString"}
    /\ origin.by # "server"
    /\ k \in ParamsOf(value.variant)
    /\ origin.tampered # "" => k = origin.key
    /\ call.fn \in {"None", "encrypt"}
    /\ call' = Call("decrypt", k, DecryptOf(value, k))
    /\ UNCHANGED <<value, origin, text>>
    /\ UNCHANGED clientVars

\* CipherString::decrypt_with_keys(&self, keys)
DecryptString(k) ==
    /\ value.variant = "CipherString"
    /\ origin.tampered = ""
    /\ call.fn \in {"None", "encrypt"}
    /\ call' = Call("CipherString::decrypt_with_keys", k,
                    CipherString_decrypt(value, k.enc, k.mac))
    /\ UNCHANGED <<value, origin, text>>
    /\ UNCHANGED clientVars

\* SymmetricEncryption::decrypt(&self, params: &SymmetricKey)
DecryptSymmetric(k) ==
    /\ value.variant \in SymmetricVariants
    /\ origin.by # "server"
    /\ origin.tampered = ""
    /\ call.fn \in {"None", "encrypt"}
    /\ call' = Call("SymmetricEncryption::decrypt", k, SymmetricEncryption_decrypt(value, k))
    /\ UNCHANGED <<value, origin, text>>
    /\ UNCHANGED clientVars

\* SymmetricKey::new(source_key, protected_symmetric_key)
SymmetricKeyNew(source_key) ==
    /\ origin.by = "server"
    /\ value.variant \in SymmetricVariants
    /\ call = NoCall
    /\ call' = Call("SymmetricKey::new", SymmetricKey(source_key, FALSE, <<>>),
                    SymmetricKey_new(source_key, value))
    /\ UNCHANGED <<value, origin, text>>
    /\ UNCHANGED clientVars

\* Keys::new(source_key, protected_symmetric_key)
KeysNew(source_key) ==
    /\ origin.by = "server"
    /\ value.variant = "CipherString"
    /\ call = NoCall
    /\ call' = Call("Keys::new", SymmetricKey(source_key, FALSE, <<>>),
                    Keys_new(source_key, value))
    /\ UNCHANGED <<value, origin, text>>
    /\ UNCHANGED clientVars

NextCipher ==
    \/ \E variant \in SymmetricVariants \cup {"CipherString"}, plaintext \in Plaintexts, iv \in Ivs :
         \E k \in ParamsOf(variant) : Encrypt(variant, plaintext, k, iv)
    \/ \E plaintext \in Plaintexts, iv \in Ivs, k \in SymmetricKeys :
         Encrypt("SymmetricEncryption", plaintext, k, iv)
    \/ \E variant \in {"AesCbc256", "AesCbc256HmacSha256", "CipherString"},
          plaintext \in Plaintexts,
          source_key \in SourceKeys, iv \in Ivs :
         ServerWrap(variant, plaintext, source_key, iv)
    \/ \E field \in {"iv", "mac", "ciphertext"}, i \in 1..(2 * BlockSize), bit \in 0..7 :
         FlipBit(field, i, bit)
    \/ \E k \in ParamsOf(value.variant) : Decrypt(k)
    \/ \E k \in ParamsOf("CipherString") : DecryptString(k)
    \/ \E k \in SymmetricKeys : DecryptSymmetric(k)
    \/ \E source_key \in SourceKeys : SymmetricKeyNew(source_key)
    \/ \E source_key \in SourceKeys : KeysNew(source_key)

SpecCipher == InitCipher /\ [][NextCipher]_vars

(***************************************************************************)
(* Properties of the cipher suite, checked under SpecCipher.               *)
(***************************************************************************)
DecryptedOwn == call.fn = "decrypt"

MacMismatch ==
    HmacSha256(call.key.mac, value.iv \o value.ciphertext) # value.mac

SameKey == call.key = origin.key

ReturnsPlaintext == call.ret.status = "Ok" /\ call.ret.bytes = origin.plaintext

\* C1: whenever an authenticated decrypt (AesCbc256HmacSha256, AesCbc128HmacSha256,
\* CipherString::decrypt_raw) is given a value whose recomputed HMAC over
\* iv || ciphertext differs from the stored MAC, it returns MacVerification and the
\* only primitive it has invoked is the HMAC verification: no block cipher was built
\* or run, and the result is neither a BlockMode error nor a plaintext.
C1_MacVerifiedBeforeCbc ==
    (DecryptedOwn /\ value.variant \in HmacVariants /\ MacMismatch)
        => /\ call.ret.status = "Err"
           /\ call.ret.err = "MacVerification"
           /\ call.ret.calls = <<"Hmac::verify">>

\* a value whose MAC does not verify and whose ciphertext would not unpad either:
\* the MAC error is the one reported
C1_Witness ==
    /\ DecryptedOwn
    /\ value.variant \in HmacVariants
    /\ MacMismatch
    /\ ~DecryptVec(call.key.enc, value.iv, value.ciphertext)[1]
    /\ call.ret.err = "MacVerification"

\* C2: a value produced by AesCbc256HmacSha256::encrypt with one bit of its mac, iv or
\* ciphertext changed fails to decrypt under the same (enc, mac) with the
\* MAC-verification error, and never yields a plaintext.
C2_TamperDetected ==
    (origin.by = "AesCbc256HmacSha256" /\ origin.tampered # "" /\ DecryptedOwn /\ SameKey)
        => call.ret.status = "Err" /\ call.ret.err = "MacVerification"

\* a changed IV bit that the block cipher alone would have turned into a wrong
\* plaintext
C2_Witness ==
    /\ origin.by = "AesCbc256HmacSha256"
    /\ origin.tampered = "iv"
    /\ DecryptedOwn
    /\ SameKey
    /\ DecryptVec(call.key.enc, value.iv, value.ciphertext)[1]
    /\ DecryptVec(call.key.enc, value.iv, value.ciphertext)[2] # origin.plaintext
    /\ call.ret.err = "MacVerification"

RoundTripRaw ==
    /\ (origin.by \in {"AesCbc256HmacSha256", "CipherString"} /\ origin.tampered = ""
          /\ DecryptedOwn /\ SameKey) => ReturnsPlaintext
    /\ (origin.by = "SymmetricEncryption" /\ origin.key.hasMac
          /\ call.fn = "SymmetricEncryption::decrypt" /\ SameKey) => ReturnsPlaintext

\* C3 as stated: decrypt(encrypt(plaintext, enc, mac), enc, mac) = Ok(plaintext) for
\* every byte string, for AesCbc256HmacSha256, for
\* CipherString::encrypt_with_keys/decrypt_with_keys and for SymmetricEncryption with a
\* key whose mac is Some.
C3_RoundTripEveryByteString ==
    /\ RoundTripRaw
    /\ (origin.by = "CipherString" /\ call.fn = "CipherString::decrypt_with_keys" /\ SameKey)
          => ReturnsPlaintext

\* C3 as amended: the round trip returns Ok(plaintext) for every byte string through
\* AesCbc256HmacSha256, CipherString::decrypt_with_keys_raw and SymmetricEncryption
\* (mac Some); through CipherString::decrypt_with_keys it returns Ok(plaintext) when the
\* plaintext is well-formed UTF-8 and InvalidUtf8 otherwise.
C3_RoundTrip ==
    /\ RoundTripRaw
    /\ (origin.by = "CipherString" /\ call.fn = "CipherString::decrypt_with_keys" /\ SameKey)
          => IF ValidUtf8(origin.plaintext) THEN ReturnsPlaintext
             ELSE call.ret.status = "Err" /\ call.ret.err = "InvalidUtf8"

\* bytes that are no UTF-8, encrypted and decrypted through the string path
C3_Witness ==
    /\ origin.by = "CipherString"
    /\ call.fn = "CipherString::decrypt_with_keys"
    /\ SameKey
    /\ origin.tampered = ""
    /\ ~ValidUtf8(origin.plaintext)
    /\ call.ret.err = "InvalidUtf8"

\* C4: AesCbc256::decrypt returns the plaintext or a BlockModeError and never panics,
\* and AesCbc256::decrypt(AesCbc256::encrypt(plaintext, k), k) = Ok(plaintext), also
\* through SymmetricEncryption with a key whose mac is None.
C4_UnauthenticatedRoundTrip ==
    /\ (value.variant = "AesCbc256" /\ call.fn \in {"decrypt", "SymmetricEncryption::decrypt"})
          => call.ret.status \in {"Ok", "Err"}
    /\ (origin.by = "AesCbc256" /\ origin.tampered = "" /\ DecryptedOwn /\ SameKey)
          => ReturnsPlaintext
    /\ (origin.by = "SymmetricEncryption" /\ ~origin.key.hasMac
          /\ call.fn = "SymmetricEncryption::decrypt" /\ SameKey) => ReturnsPlaintext

\* C10: SymmetricKey::new on a protected key wrapped under the source key: for
\* AesCbc256HmacSha256, Ok(enc = plaintext[0..32], mac = Some(plaintext[32..64])) iff the
\* plaintext has 64 bytes and InvalidLength otherwise; for AesCbc256,
\* Ok(enc = plaintext, mac = None) iff the plaintext has 32 bytes and InvalidLength
\* otherwise.
C10_SymmetricKeyLength ==
    (call.fn = "SymmetricKey::new" /\ call.key.enc = origin.source_key)
        => LET p == origin.plaintext IN
           IF value.variant = "AesCbc256HmacSha256"
           THEN IF Len(p) = KeysLen
                THEN /\ call.ret.status = "Ok"
                     /\ call.ret.key = SymmetricKey(SubSeq(p, 1, Key256Len), TRUE,
                                                    SubSeq(p, Key256Len + 1, KeysLen))
                ELSE call.ret.status = "Err" /\ call.ret.err = "InvalidLength"
           ELSE IF Len(p) = Key256Len
                THEN call.ret.status = "Ok" /\ call.ret.key = SymmetricKey(p, FALSE, <<>>)
                ELSE call.ret.status = "Err" /\ call.ret.err = "InvalidLength"

\* the authenticated half of C10 alone
C10_AuthenticatedHalf ==
    (call.fn = "SymmetricKey::new" /\ call.key.enc = origin.source_key
       /\ value.variant = "AesCbc256HmacSha256")
        => C10_SymmetricKeyLength

\* C11: Keys::new on a protected key wrapped under the expanded source key returns
\* Ok(Keys{enc = plaintext[0..32], mac = plaintext[32..64]}) iff the plaintext has 64
\* bytes, and an error (no panic, no key) for every shorter or longer plaintext.
C11_KeysLength ==
    (call.fn = "Keys::new" /\ call.key.enc = origin.source_key)
        => LET p == origin.plaintext IN
           IF Len(p) = KeysLen
           THEN /\ call.ret.status = "Ok"
                /\ call.ret.key = SymmetricKey(SubSeq(p, 1, Key256Len), TRUE,
                                               SubSeq(p, Key256Len + 1, KeysLen))
           ELSE call.ret.status = "Err"

\* the part of C11 that the code keeps: a 64-byte plaintext gives the two halves
C11_ExactLength ==
    (call.fn = "Keys::new" /\ call.key.enc = origin.source_key
       /\ Len(origin.plaintext) = KeysLen)
        => C11_KeysLength

\* the keys an unwrapping call has handed to the cipher and the HMAC
UnwrapParams ==
    IF call.fn = "Keys::new" THEN Keys_new_params(call.key.enc)
    ELSE SymmetricKey_new_params(call.key.enc, value)

\* C12: in SymmetricKey::new and Keys::new the key handed to the block cipher is the
\* HKDF 'enc' output of the source key and never the source key itself, also for an
\* AesCbc256 protected key; the HMAC key of the authenticated variant is the 'mac'
\* output.
C12_SourceKeyNeverCipherKey ==
    (call.fn \in {"SymmetricKey::new", "Keys::new"} /\ value.variant # "AesCbc128HmacSha256")
        => /\ UnwrapParams.enc = expand(call.key.enc)[1]
           /\ UnwrapParams.enc # call.key.enc
           /\ value.variant # "AesCbc256" => UnwrapParams.mac = expand(call.key.enc)[2]

\* the part of C12 that the code keeps: the authenticated protected keys
C12_AuthenticatedPaths ==
    value.variant # "AesCbc256" => C12_SourceKeyNeverCipherKey

\* C13: a tag-1 value whose MAC verifies under the key's mac is decrypted by
\* SymmetricEncryption::decrypt and not rejected for its tag.
C13_LegacyDecrypts ==
    (value.variant = "AesCbc128HmacSha256" /\ call.fn = "SymmetricEncryption::decrypt"
       /\ call.key.hasMac /\ MacVerifies(call.key.mac, value.iv \o value.ciphertext, value.mac))
        => call.ret.status = "Ok"

DecryptedString == call.fn = "CipherString::decrypt_with_keys"

\* what decrypt_raw returns for the value and the keys of the call
RawResult == CipherString_decrypt_raw(value, call.key.enc, call.key.mac)

MacOk == MacVerifies(call.key.mac, value.iv \o value.ciphertext, value.mac)

UnpadOk == DecryptVec(call.key.enc, value.iv, value.ciphertext)[1]

\* C14: CipherString::decrypt returns InvalidUtf8 only when the MAC verified, the CBC
\* decryption unpadded and the bytes are no UTF-8; a MAC or padding failure is
\* Other(MacVerification) or Other(BlockMode), never InvalidUtf8; for a UTF-8 plaintext
\* the String returned has exactly the bytes of decrypt_raw's result.
C14_StringErrorKinds ==
    DecryptedString =>
        /\ (call.ret.status = "Err" /\ call.ret.err = "InvalidUtf8")
              => MacOk /\ UnpadOk /\ RawResult.status = "Ok" /\ ~ValidUtf8(RawResult.bytes)
        /\ ~MacOk
              => /\ call.ret.status = "Err"
                 /\ call.ret.wrapper = "Other"
                 /\ call.ret.err = "MacVerification"
        /\ (MacOk /\ ~UnpadOk)
              => /\ call.ret.status = "Err"
                 /\ call.ret.wrapper = "Other"
                 /\ call.ret.err = "BlockMode"
        /\ (RawResult.status = "Ok" /\ ValidUtf8(RawResult.bytes))
              => call.ret.status = "Ok" /\ call.ret.bytes = RawResult.bytes

\* the MAC key is the right one and the encryption key is not: a padding failure
C14_Witness ==
    /\ DecryptedString
    /\ MacOk
    /\ ~UnpadOk
    /\ call.ret.wrapper = "Other"
    /\ call.ret.err = "BlockMode"

\* a value as an authenticated encrypt returned it
Authenticated == origin.by \in HmacVariants /\ origin.tampered = ""

\* C20: a value returned by AesCbc256HmacSha256::encrypt, AesCbc128HmacSha256::encrypt
\* or CipherString::encrypt holds the 16-byte IV that generate_iv drew for the call,
\* the ciphertext made with that IV, and as mac the HMAC under the mac key of
\* iv || ciphertext as stored; its MAC verifies under exactly the mac key of the
\* encryption, so that a decrypt with another mac key returns MacVerification whatever
\* its enc key, and a decrypt with the same mac key never does.
C20_EncryptInvariant ==
    Authenticated =>
        /\ Len(value.iv) = IvLen
        /\ \E iv \in Ivs :
              /\ value.iv = iv
              /\ value.ciphertext = EncryptVec(origin.key.enc, iv, origin.plaintext)
        /\ Len(value.mac) = MacLen
        /\ value.mac = HmacSha256(origin.key.mac, value.iv \o value.ciphertext)
        /\ \A k \in ParamsOf(origin.by) :
              MacVerifies(k.mac, value.iv \o value.ciphertext, value.mac)
                 <=> k.mac = origin.key.mac
        /\ DecryptedOwn =>
              IF call.key.mac = origin.key.mac
              THEN ~(call.ret.status = "Err" /\ call.ret.err = "MacVerification")
              ELSE call.ret.status = "Err" /\ call.ret.err = "MacVerification"

\* a tag-1 value decrypted with the enc key of its encryption and another mac key
C20_Witness ==
    /\ Authenticated
    /\ origin.by = "AesCbc128HmacSha256"
    /\ value.iv = Ramp(IvLen, 9, 3)
    /\ DecryptedOwn
    /\ call.key.enc = origin.key.enc
    /\ call.key.mac # origin.key.mac
    /\ call.ret.err = "MacVerification"

EncryptedSymmetric == origin.by = "SymmetricEncryption" /\ origin.tampered = ""
DecryptedSymmetric == call.fn = "SymmetricEncryption::decrypt"

\* C23: SymmetricEncryption::encrypt returns the tag-2 variant exactly when the key has
\* a MAC key and the tag-0 variant otherwise; SymmetricEncryption::decrypt of a tag-2
\* value with a key without MAC key returns MacKeyMissing and has called neither the
\* HMAC nor the block cipher; decrypt of a tag-0 value is the tag-0 decrypt under
\* key.enc, the same for every key with that enc, with or without MAC key.
C23_KeyShapeDispatch ==
    /\ EncryptedSymmetric =>
          /\ value.variant = "AesCbc256HmacSha256" <=> origin.key.hasMac
          /\ value.variant = "AesCbc256" <=> ~origin.key.hasMac
          /\ origin.key.hasMac =>
                value = AesCbc256HmacSha256_encrypt(origin.plaintext, origin.key.enc,
                                                    origin.key.mac, value.iv).val
          /\ ~origin.key.hasMac =>
                value = AesCbc256_encrypt(origin.plaintext, origin.key.enc, value.iv).val
    /\ (DecryptedSymmetric /\ value.variant = "AesCbc256HmacSha256" /\ ~call.key.hasMac) =>
          call.ret = Err("MacKeyMissing", <<>>)
    /\ (DecryptedSymmetric /\ value.variant = "AesCbc256") =>
          /\ call.ret = AesCbc256_decrypt(value, call.key.enc)
          /\ \A k \in SymmetricKeys :
                k.enc = call.key.enc => SymmetricEncryption_decrypt(value, k) = call.ret

\* a value encrypted under a key with MAC key, decrypted with a key without one
C23_Witness ==
    /\ EncryptedSymmetric
    /\ origin.key.hasMac
    /\ value.variant = "AesCbc256HmacSha256"
    /\ DecryptedSymmetric
    /\ ~call.key.hasMac
    /\ call.key.enc = origin.key.enc
    /\ call.ret.err = "MacKeyMissing"

\* a tag-0 value decrypted with a key that has a MAC key
C23_WitnessPlain ==
    /\ DecryptedSymmetric
    /\ value.variant = "AesCbc256"
    /\ call.key.hasMac
    /\ \E k \in SymmetricKeys : k.enc = call.key.enc /\ ~k.hasMac

(***************************************************************************)
(* The wire format as a state machine: a value is built or a text is       *)
(* received, a value is written with Display, a text is parsed.            *)
(***************************************************************************)
MaxSegments == 4

AsymmetricVariants == {"Rsa2048OaepSha256", "Rsa2048OaepSha1"}

Macs == {Ramp(MacLen, 200, 7), Fill(MacLen, 255)}

Ciphertexts == {<<>>, Ramp(5, 250, 3), Ramp(BlockSize, 7, 11), Ramp(2 * BlockSize + 1, 128, 1)}

\* values as the public fields and CipherString::new allow them
ConstructedValues ==
    {Value("AesCbc256", iv, <<>>, ct) : iv \in Ivs, ct \in Ciphertexts}
    \cup {Value(variant, <<>>, <<>>, ct) : variant \in AsymmetricVariants, ct \in Ciphertexts}
    \cup UNION {{Value(variant, iv, mac, ct) : iv \in Ivs, mac \in Macs} :
                  variant \in HmacVariants, ct \in Ciphertexts}

Parsers ==
    {"AesCbc256::parse", "AesCbc128HmacSha256::parse", "AesCbc256HmacSha256::parse",
     "Rsa2048OaepSha256::parse", "Rsa2048OaepSha1::parse", "SymmetricEncryption::parse",
     "AsymmetricEncryption::parse", "CipherString::parse"}

ParseOf(fn, chars) ==
    CASE fn = "AesCbc256::parse" -> AesCbc256_parse(chars)
      [] fn = "AesCbc128HmacSha256::parse" -> AesCbc128HmacSha256_parse(chars)
      [] fn = "AesCbc256HmacSha256::parse" -> AesCbc256HmacSha256_parse(chars)
      [] fn = "Rsa2048OaepSha256::parse" -> Rsa2048OaepSha256_parse(chars)
      [] fn = "Rsa2048OaepSha1::parse" -> Rsa2048OaepSha1_parse(chars)
      [] fn = "SymmetricEncryption::parse" -> SymmetricEncryption_parse(chars)
      [] fn = "AsymmetricEncryption::parse" -> AsymmetricEncryption_parse(chars)
      [] OTHER -> CipherString_parse(chars)

\* the texts a server or a cache file may hold
TagStrings ==
    {<<>>, <<"0">>, <<"1">>, <<"2">>, <<"3">>, <<"4">>, <<"5">>, <<"9">>, <<"1", "2">>,
     <<"0", "2">>, <<"+", "2">>, <<"+", "3">>, <<"-", "2">>, <<"x">>, <<"+">>,
     <<"U+00E9">>, <<"2", "U+00E9">>, <<"U+00E9", "U+00E9">>, <<"U+00E9", "2">>}

BadSegments == {<<"!", "A", "A", "A">>, <<"A">>}

Segments(k) ==
    CASE k = 1 -> {Base64Encode(Ramp(n, 9, 3)) : n \in {IvLen - 1, IvLen, IvLen + 1}}
                     \cup {<<>>} \cup BadSegments
      [] k = 2 -> {Base64Encode(Ramp(BlockSize, 7, 11)), <<>>, <<"!", "A", "A", "A">>}
      [] k = 3 -> {Base64Encode(Ramp(n, 200, 7)) : n \in {MacLen - 1, MacLen, MacLen + 1}}
                     \cup {<<"!", "A", "A", "A">>}
      [] OTHER -> {<<"A", "A", "A", "A">>}

RECURSIVE Payloads(_)
Payloads(k) ==
    IF k = 0 THEN {<<>>}
    ELSE IF k = 1 THEN Segments(1)
    ELSE {p \o <<"|">> \o seg : p \in Payloads(k - 1), seg \in Segments(k)}

Texts ==
    {tag \o <<".">> \o p : tag \in TagStrings, p \in UNION {Payloads(k) : k \in 0..MaxSegments}}
    \cup {tag \o p : tag \in TagStrings, p \in Payloads(1) \cup {<<"U+00E9">>}}
    \cup {tag \o <<".", "U+00E9">> : tag \in TagStrings}

InitWire == InitCipher

\* a value is built from its fields
Construct(v) ==
    /\ value = NoValue
    /\ ~text.present
    /\ value' = v
    /\ origin' = Origin("construct", <<>>, NoKey, <<>>, "")
    /\ call' = NoCall
    /\ text' = NoText
    /\ UNCHANGED clientVars

\* value.to_string()
Display ==
    /\ value # NoValue
    /\ ~text.present
    /\ text' = Text(to_string(value))
    /\ call' = NoCall
    /\ UNCHANGED <<value, origin>>
    /\ UNCHANGED clientVars

\* a text arrives from the server or the cache
Receive(chars) ==
    /\ value = NoValue
    /\ ~text.present
    /\ text' = Text(chars)
    /\ call' = NoCall
    /\ UNCHANGED <<value, origin>>
    /\ UNCHANGED clientVars

\* T::parse(text)
Parse(fn) ==
    /\ text.present
    /\ call = NoCall
    /\ call' = Call(fn, NoKey, ParseOf(fn, text.chars))
    /\ UNCHANGED <<value, origin, text>>
    /\ UNCHANGED clientVars

NextWire ==
    \/ \E v \in ConstructedValues : Construct(v)
    \/ Display
    \/ \E chars \in Texts : Receive(chars)
    \/ \E fn \in Parsers : Parse(fn)

SpecWire == InitWire /\ [][NextWire]_vars

(***************************************************************************)
(* Properties of the wire format, checked under SpecWire.                  *)
(***************************************************************************)
Parsed == call.fn \in Parsers

OwnParser(variant) ==
    CASE variant = "AesCbc256" -> "AesCbc256::parse"
      [] variant = "AesCbc128HmacSha256" -> "AesCbc128HmacSha256::parse"
      [] variant = "AesCbc256HmacSha256" -> "AesCbc256HmacSha256::parse"
      [] variant = "Rsa2048OaepSha256" -> "Rsa2048OaepSha256::parse"
      [] variant = "Rsa2048OaepSha1" -> "Rsa2048OaepSha1::parse"
      [] OTHER -> "CipherString::parse"

EnumParser(variant) ==
    IF variant \in SymmetricVariants THEN "SymmetricEncryption::parse"
    ELSE "AsymmetricEncryption::parse"

TagOf(variant) ==
    CASE variant = "AesCbc256" -> "0"
      [] variant = "AesCbc128HmacSha256" -> "1"
      [] variant = "AesCbc256HmacSha256" -> "2"
      [] variant = "Rsa2048OaepSha256" -> "3"
      [] OTHER -> "4"

\* the k-th segment of the text, decoded
Decoded(k) == Base64Decode(Part(Rest(text.chars), k))

\* the text was written by Display from the value held
Displayed == text.present /\ value # NoValue

\* C5: for a value of each of the five variants, parsing its Display text gives back
\* the value, through the variant's own parse and through the enum's parse (which
\* returns the variant of the tag written), and the text carries the tag and then the
\* segments in the order iv | ciphertext | mac (iv | ciphertext for tag 0, the
\* ciphertext alone for tags 3 and 4).
C5_WireRoundTrip ==
    (Displayed /\ value.variant # "CipherString")
        => /\ call.fn \in {OwnParser(value.variant), EnumParser(value.variant)}
                => call.ret = OkValue(value)
           /\ text.chars[1] = TagOf(value.variant)
           /\ text.chars[2] = "."
           /\ IF value.variant \in AsymmetricVariants
              THEN /\ NumParts(Rest(text.chars)) = 1
                   /\ Decoded(1) = <<TRUE, value.ciphertext>>
              ELSE /\ Decoded(1) = <<TRUE, value.iv>>
                   /\ Decoded(2) = <<TRUE, value.ciphertext>>
                   /\ IF value.variant = "AesCbc256"
                      THEN NumParts(Rest(text.chars)) = 2
                      ELSE /\ NumParts(Rest(text.chars)) = 3
                           /\ Decoded(3) = <<TRUE, value.mac>>

\* a tag-2 value with a ciphertext as long as a MAC is not, read back through the enum
C5_Witness ==
    /\ Displayed
    /\ value.variant = "AesCbc256HmacSha256"
    /\ Len(value.ciphertext) = 2 * BlockSize + 1
    /\ call.fn = "SymmetricEncryption::parse"
    /\ call.ret = OkValue(value)

AcceptedTags(fn) ==
    CASE fn = "AesCbc256::parse" -> <<0>>
      [] fn = "AesCbc128HmacSha256::parse" -> <<1>>
      [] fn = "AesCbc256HmacSha256::parse" -> <<2>>
      [] fn = "CipherString::parse" -> <<2>>
      [] fn = "Rsa2048OaepSha256::parse" -> <<3>>
      [] fn = "Rsa2048OaepSha1::parse" -> <<4>>
      [] fn = "SymmetricEncryption::parse" -> <<0, 1, 2>>
      [] OTHER -> <<3, 4>>

Ty == ParseTy(text.chars)

TagAccepted == Ty.kind = "ok" /\ \E i \in DOMAIN AcceptedTags(call.fn) : AcceptedTags(call.fn)[i] = Ty.ty

\* the segments the variant of the tag defines
Required == IF Ty.ty = 0 THEN 2 ELSE IF Ty.ty \in {1, 2} THEN 3 ELSE 1

\* the segments the text has: those after the '.', none without a '.'
Present == IF HasDot(text.chars) THEN NumParts(Rest(text.chars)) ELSE 0

Failed(err) == call.ret.status = "Err" /\ call.ret.err = err

\* a tag that parses as a number and is not accepted
RejectsUnknownTag ==
    (Ty.kind = "ok" /\ ~TagAccepted)
        => /\ Failed("InvalidEncryptionType")
           /\ call.ret.found = Ty.ty
           /\ call.ret.expected = AcceptedTags(call.fn)

\* a required segment is lacking, what is there decodes
RejectsMissingSegment ==
    (TagAccepted /\ Present < Required /\ \A k \in 1..Present : Decoded(k)[1])
        => Failed(IF Ty.ty \in {1, 2} /\ Present = 2 THEN "MacNotFound"
                  ELSE "CiphertextNotFound")

\* the required segments are there, one of them is no base64
RejectsBadBase64 ==
    (TagAccepted /\ Present >= Required /\ \E k \in 1..Required : ~Decoded(k)[1])
        => Failed("Decode")

\* C6: a leading integer that is not an accepted tag gives InvalidEncryptionType with
\* the found value and the accepted set; a text that lacks a required segment gives
\* the *NotFound error of that segment; a segment that is no padded base64 gives
\* Decode; no value is returned in any of these cases.
C6_FormatRejection ==
    (Parsed /\ call.fn # "CipherString::parse")
        => RejectsUnknownTag /\ RejectsMissingSegment /\ RejectsBadBase64

\* what remains of C6 with the RSA variants' lacking ciphertext left out
C6_ExceptRsaWithoutCiphertext ==
    (Parsed /\ call.fn # "CipherString::parse" /\ ~(TagAccepted /\ Ty.ty \in {3, 4} /\ Present = 0))
        => RejectsUnknownTag /\ RejectsMissingSegment /\ RejectsBadBase64

WellFormed == TagAccepted /\ Present >= Required /\ \A k \in 1..Required : Decoded(k)[1]

\* C7: a value returned by a successful parse has an IV of exactly 16 bytes and, for
\* the HMAC variants and CipherString, a MAC of exactly 32 bytes, both the decoded
\* bytes themselves; in a text that is well-formed otherwise a decoded IV of another
\* length gives InvalidIvLength, and with a 16-byte IV a decoded MAC of another length
\* gives InvalidMacLength (InvalidMacKeyLength for CipherString).
C7_ParsedLengths ==
    Parsed =>
        /\ (call.ret.status = "Ok" /\ call.ret.val.variant \notin AsymmetricVariants)
              => /\ Len(call.ret.val.iv) = IvLen
                 /\ call.ret.val.iv = Decoded(1)[2]
                 /\ call.ret.val.variant \in HmacVariants
                       => Len(call.ret.val.mac) = MacLen /\ call.ret.val.mac = Decoded(3)[2]
        /\ (WellFormed /\ Ty.ty \in {0, 1, 2} /\ Len(Decoded(1)[2]) # IvLen)
              => Failed("InvalidIvLength")
        /\ (WellFormed /\ Ty.ty \in {1, 2} /\ Len(Decoded(1)[2]) = IvLen
              /\ Len(Decoded(3)[2]) # MacLen)
              => Failed(IF call.fn = "CipherString::parse" THEN "InvalidMacKeyLength"
                        ELSE "InvalidMacLength")

\* an IV one byte too long in a text that is well-formed otherwise
C7_Witness ==
    /\ Parsed
    /\ call.fn = "AesCbc256HmacSha256::parse"
    /\ WellFormed
    /\ Len(Decoded(1)[2]) = IvLen + 1
    /\ Len(Decoded(3)[2]) = MacLen
    /\ Failed("InvalidIvLength")

\* C8: every parse function returns Ok(value) or a typed error for every text.
C8_ParseNeverPanics == Parsed => call.ret.status \in {"Ok", "Err"}

\* C9: a text that parses is exactly the text Display writes for the parsed value.
C9_ExactGrammar ==
    (Parsed /\ call.ret.status = "Ok") => to_string(call.ret.val) = text.chars

(***************************************************************************)
(* Key derivation.  PBKDF2-HMAC-SHA256 with a 32-byte output is one block: *)
(* U1 = HMAC(password, salt || INT(1)), Ui = HMAC(password, U(i-1)), and   *)
(* the output is U1 xor ... xor Uc.                                        *)
(***************************************************************************)
MaxIterations == 3

XorBytes(a, b) == [i \in 1..Len(a) |-> Xor(a[i], b[i])]

\* the loop `for _ in 1..rounds` of the pbkdf2 crate
RECURSIVE Pbkdf2Rounds(_, _, _, _)
Pbkdf2Rounds(password, u, chunk, rounds) ==
    IF rounds <= 1 THEN chunk
    ELSE CHOOSE result \in
            {Pbkdf2Rounds(password, next, XorBytes(chunk, next), rounds - 1) :
                next \in {HmacSha256(password, u)}} : TRUE

\* pbkdf2::<Hmac<Sha256>>(password, salt, rounds, &mut [0; 32])
pbkdf2(password, salt, rounds) ==
    LET u1 == HmacSha256(password, salt \o <<0, 0, 0, 1>>)
    IN Pbkdf2Rounds(password, u1, u1, rounds)

Pbkdf2Sha256 == 0

\* a derivation that takes no notice of the iteration count
SourceKey_new_one_round(username, password, kdf_type, kdf_iterations) ==
    pbkdf2(password, username, 1)

\* SourceKey::new(username, password, kdf_type, kdf_iterations)
SourceKey_new(username, password, kdf_type, kdf_iterations) ==
    pbkdf2(password, username, kdf_iterations)

\* a hash of two rounds
MasterPasswordHash_new_two_rounds(source_key, password, kdf_type) ==
    pbkdf2(source_key, password, 2)

\* MasterPasswordHash::new(source_key, password, kdf_type)
MasterPasswordHash_new(source_key, password, kdf_type) == pbkdf2(source_key, password, 1)

\* MasterPasswordHash::encode, which Display and Serialize write
MasterPasswordHash_encode(hash) == Base64Encode(hash)

\* "a@x", "b@x"
Emails == {<<97, 64, 120>>, <<98, 64, 120>>}

\* "pw", "pw" followed by a NUL character, "px", the empty password
Passwords == {<<112, 119>>, <<112, 119, 0>>, <<112, 120>>, <<>>}

Iterations == 1..MaxIterations

DeriveArgs(email, password, kdf_type, kdf_iterations) ==
    [email |-> email, password |-> password, kdf_type |-> kdf_type,
     kdf_iterations |-> kdf_iterations]

(***************************************************************************)
(* Two calls of SourceKey::new, one after the other.                       *)
(***************************************************************************)
DeriveSourceKey(email, password, kdf_iterations) ==
    /\ Len(derived) < 2
    /\ derived' = Append(derived,
                         [args |-> DeriveArgs(email, password, Pbkdf2Sha256, kdf_iterations),
                          key |-> SourceKey_new(email, password, Pbkdf2Sha256,
                                                kdf_iterations)])
    /\ UNCHANGED <<serviceVars, cryptoVars, login, totp, session>>

NextDerive ==
    \E email \in Emails, password \in Passwords, kdf_iterations \in Iterations :
        DeriveSourceKey(email, password, kdf_iterations)

SpecDerive == InitCipher /\ [][NextDerive]_vars

TwoCalls == Len(derived) = 2

\* the number of arguments in which the two calls differ
Differences ==
    Cardinality({f \in {"email", "password", "kdf_type", "kdf_iterations"} :
                    derived[1].args[f] # derived[2].args[f]})

\* HMAC pads a key shorter than its 64-byte block with zeros: two such keys are the
\* same key when they differ in trailing zero bytes only
ZeroPadded(key, n) == [i \in 1..n |-> IF i <= Len(key) THEN key[i] ELSE 0]

SameHmacKey(a, b) ==
    LET n == IF Len(a) > Len(b) THEN Len(a) ELSE Len(b)
    IN ZeroPadded(a, n) = ZeroPadded(b, n)

KdfValues == {0, 1, 255}

\* a reply that maps every number to PBKDF2
KdfType_deserialize_fallback(n) == <<TRUE, Pbkdf2Sha256>>

\* Deserialize_repr for KdfType: <<TRUE, kdf_type>>, or <<FALSE, _>> for a number that
\* is no discriminant
KdfType_deserialize(n) ==
    IF n = Pbkdf2Sha256 THEN <<TRUE, Pbkdf2Sha256>> ELSE <<FALSE, Pbkdf2Sha256>>

\* the errors parse_with_login_result and send return
LoginErrors == {"Request", "Response", "TwoFactorRequired"}

NoReply == [received |-> FALSE, kdf |-> 0, kdf_iterations |-> 0]

Reply(kdf, kdf_iterations) ==
    [received |-> TRUE, kdf |-> kdf, kdf_iterations |-> kdf_iterations]

NoRequest == [sent |-> FALSE, grant_type |-> "", username |-> <<>>, password |-> <<>>]

TokenRequest(username, password) ==
    [sent |-> TRUE, grant_type |-> "password", username |-> username, password |-> password]

LoginState(pc, email, password, prelogin, derivations, source_key, token_request, token, result) ==
    [pc |-> pc, email |-> email, password |-> password, prelogin |-> prelogin,
     derivations |-> derivations, source_key |-> source_key,
     token_request |-> token_request, token |-> token, result |-> result]

Pending == [status |-> "Pending", err |-> "", kdf_type |-> 0, kdf_iterations |-> 0]

LoginErr(err) == [status |-> "Err", err |-> err, kdf_type |-> 0, kdf_iterations |-> 0]

LoginOk(kdf_type, kdf_iterations) ==
    [status |-> "Ok", err |-> "", kdf_type |-> kdf_type, kdf_iterations |-> kdf_iterations]

\* login(data, cache) is called and the prelogin request is sent
LoginCall(email, password) ==
    /\ login = NoLogin
    /\ login' = LoginState("prelogin", email, password, NoReply, <<>>, <<>>, NoRequest,
                           NoReply, Pending)
    /\ UNCHANGED <<serviceVars, cryptoVars, derived, totp, session>>

\* the prelogin response arrives with a success status: it is deserialized, the keys
\* are derived and the token request is sent
PreloginReply(kdf, kdf_iterations) ==
    /\ login.pc = "prelogin"
    /\ LET kdf_type == KdfType_deserialize(kdf)
           source_key == SourceKey_new(login.email, login.password, kdf_type[2],
                                       kdf_iterations)
           master_password_hash ==
               MasterPasswordHash_new(source_key, login.password, kdf_type[2])
       IN IF ~kdf_type[1]
          THEN login' = [login EXCEPT !.pc = "done", !.prelogin = Reply(kdf, kdf_iterations),
                                      !.result = LoginErr("Request")]
          ELSE login' = [login EXCEPT
                           !.pc = "token",
                           !.prelogin = Reply(kdf, kdf_iterations),
                           !.derivations =
                               <<[fn |-> "SourceKey::new",
                                  args |-> DeriveArgs(login.email, login.password,
                                                      kdf_type[2], kdf_iterations)],
                                 [fn |-> "MasterPasswordHash::new",
                                  args |-> DeriveArgs(<<>>, login.password, kdf_type[2], 1)]>>,
                           !.source_key = source_key,
                           !.token_request =
                               TokenRequest(login.email,
                                            MasterPasswordHash_encode(master_password_hash))]
    /\ UNCHANGED <<serviceVars, cryptoVars, derived, totp, session>>

\* the prelogin request fails, or the server answers it with an error
PreloginFails(err) ==
    /\ login.pc = "prelogin"
    /\ login' = [login EXCEPT !.pc = "done", !.result = LoginErr(err)]
    /\ UNCHANGED <<serviceVars, cryptoVars, derived, totp, session>>

\* the token response arrives with a success status and is deserialized
TokenReply(kdf, kdf_iterations) ==
    /\ login.pc = "token"
    /\ LET kdf_type == KdfType_deserialize(kdf)
       IN login' = [login EXCEPT
                      !.pc = "done",
                      !.token = Reply(kdf, kdf_iterations),
                      !.result = IF kdf_type[1] THEN LoginOk(kdf_type[2], kdf_iterations)
                                 ELSE LoginErr("Request")]
    /\ UNCHANGED <<serviceVars, cryptoVars, derived, totp, session>>

\* the token request fails, or the server answers it with an error
TokenFails(err) ==
    /\ login.pc = "token"
    /\ login' = [login EXCEPT !.pc = "done", !.result = LoginErr(err)]
    /\ UNCHANGED <<serviceVars, cryptoVars, derived, totp, session>>

NextLogin ==
    \/ \E email \in Emails, password \in Passwords : LoginCall(email, password)
    \/ \E kdf \in KdfValues, kdf_iterations \in Iterations : PreloginReply(kdf, kdf_iterations)
    \/ \E err \in LoginErrors : PreloginFails(err)
    \/ \E kdf \in KdfValues, kdf_iterations \in Iterations : TokenReply(kdf, kdf_iterations)
    \/ \E err \in LoginErrors : TokenFails(err)

SpecLogin == InitCipher /\ [][NextLogin]_vars

TokenRequestSent == login.pc \in {"token", "done"} /\ login.token_request.sent

\* what the 'password' field of the token request decodes to
SentHash == Base64Decode(login.token_request.password)

\* C16: the 'password' field of the token request is the base64 text of 32 bytes that
\* are PBKDF2-HMAC-SHA256 of one iteration, i.e. HMAC(source_key, password || INT(1)),
\* with the source key derived from the prelogin parameters, whatever the account's
\* iteration count; it is not the source key, not an output of SourceKey::expand and
\* not the master password.
C16_MasterPasswordHash ==
    TokenRequestSent =>
        /\ SentHash[1]
        /\ Len(SentHash[2]) = Key256Len
        /\ SentHash[2] = HmacSha256(login.source_key, login.password \o <<0, 0, 0, 1>>)
        /\ login.source_key = pbkdf2(login.password, login.email,
                                     login.prelogin.kdf_iterations)
        /\ SentHash[2] # login.source_key
        /\ SentHash[2] # expand(login.source_key)[1]
        /\ SentHash[2] # expand(login.source_key)[2]
        /\ SentHash[2] # login.password

\* an account of more than one iteration: the hash is still of one
C16_Witness ==
    /\ TokenRequestSent
    /\ login.prelogin.kdf_iterations = MaxIterations
    /\ login.token_request.password =
         Base64Encode(HmacSha256(login.source_key, login.password \o <<0, 0, 0, 1>>))

UnknownKdf(reply) == reply.received /\ reply.kdf # Pbkdf2Sha256

LoginFailed == login.pc = "done" /\ login.result.status = "Err"

\* C17 as stated: a 'Kdf' other than 0 in the prelogin or in the token response makes
\* login fail before any key derivation.
C17_UnknownKdfBeforeDerivation ==
    (login.pc # "idle" /\ (UnknownKdf(login.prelogin) \/ UnknownKdf(login.token)))
        => LoginFailed /\ login.derivations = <<>>

\* C17 as amended: a 'Kdf' other than 0 in the prelogin response makes login fail
\* before any key derivation and before the token request; a 'Kdf' other than 0 in the
\* token response makes login fail as well, after the keys were derived; no number is
\* mapped to another KDF; and SourceKey::new receives the kdf_type and kdf_iterations
\* of the prelogin response unchanged.
C17_UnknownKdf ==
    login.pc # "idle" =>
        /\ UnknownKdf(login.prelogin)
              => LoginFailed /\ login.derivations = <<>> /\ ~login.token_request.sent
        /\ UnknownKdf(login.token) => LoginFailed
        /\ login.result.status = "Ok"
              => /\ login.prelogin.kdf = Pbkdf2Sha256
                 /\ login.result.kdf_type = login.token.kdf
                 /\ login.result.kdf_iterations = login.token.kdf_iterations
        /\ login.derivations # <<>>
              => login.derivations[1].args =
                   DeriveArgs(login.email, login.password, login.prelogin.kdf,
                              login.prelogin.kdf_iterations)

\* the token response names an unknown KDF: login fails with the keys derived
C17_Witness ==
    /\ login.pc = "done"
    /\ UnknownKdf(login.token)
    /\ LoginFailed
    /\ login.derivations # <<>>

(***************************************************************************)
(* TotpConfig::from_otpauth_url.  A Url is its scheme, its host and its    *)
(* decoded query pairs; u32 and u64 values are written as decimal digits   *)
(* without leading zeros, since they exceed the integers of the checker.   *)
(***************************************************************************)
DEFAULT_ALGORITHM == "Sha1"

DEFAULT_DIGITS == 6

DEFAULT_TIME_STEP == 30

\* u32::MAX and u64::MAX
U32Max == <<"4", "2", "9", "4", "9", "6", "7", "2", "9", "5">>

U64Max == <<"1", "8", "4", "4", "6", "7", "4", "4", "0", "7", "3", "7", "0", "9", "5", "5",
            "1", "6", "1", "5">>

\* the decimal digits of n < 100
Decimal(n) ==
    IF n < 10 THEN <<Digits[n + 1]>> ELSE <<Digits[(n \div 10) + 1], Digits[(n % 10) + 1]>>

\* str::parse::<u32> and str::parse::<u64>: <<TRUE, digits of the value>> or
\* <<FALSE, <<>>>> (ParseIntError: empty, invalid digit, or a value above max)
ParseUnsigned(chars, max) ==
    LET digits == IF Len(chars) > 0 /\ chars[1] = "+" THEN Tail(chars) ELSE chars
        n == Len(digits)
        zeros == Cardinality({i \in 1..n : \A k \in 1..i : digits[k] = "0"})
        canon == IF zeros = n THEN <<"0">> ELSE SubSeq(digits, zeros + 1, n)
        above == \/ Len(canon) > Len(max)
                 \/ /\ Len(canon) = Len(max)
                    /\ \E i \in 1..Len(max) :
                          /\ DigitVal(canon[i]) > DigitVal(max[i])
                          /\ \A k \in 1..(i - 1) : canon[k] = max[k]
    IN IF n = 0 THEN <<FALSE, <<>>>>
       ELSE IF \E i \in 1..n : digits[i] \notin DigitSet THEN <<FALSE, <<>>>>
       ELSE IF above THEN <<FALSE, <<>>>>
       ELSE <<TRUE, canon>>

Base32Chars ==
    <<"A", "B", "C", "D", "E", "F", "G", "H", "I", "J", "K", "L", "M", "N", "O", "P",
      "Q", "R", "S", "T", "U", "V", "W", "X", "Y", "Z", "2", "3", "4", "5", "6", "7">>

\* decode: base32 of RFC 4648 without padding, <<TRUE, bytes>> or <<FALSE, <<>>>> (None)
decode(secret) ==
    LET n == Len(secret)
        val(i) == (CHOOSE k \in 1..32 : Base32Chars[k] = secret[i]) - 1
        bit(k) == (val((k \div 5) + 1) \div Pow2(4 - (k % 5))) % 2
    IN IF \E i \in 1..n : \A k \in 1..32 : Base32Chars[k] # secret[i] THEN <<FALSE, <<>>>>
       ELSE <<TRUE, [j \in 1..((n * 5) \div 8) |->
                       bit(8 * j - 8) * 128 + bit(8 * j - 7) * 64 + bit(8 * j - 6) * 32
                       + bit(8 * j - 5) * 16 + bit(8 * j - 4) * 8 + bit(8 * j - 3) * 4
                       + bit(8 * j - 2) * 2 + bit(8 * j - 1)]>>

\* url.query_pairs().collect::<HashMap<_, _>>() followed by remove(key) or get(key):
\* <<TRUE, value>> with the value of the last pair of that key, or <<FALSE, <<>>>> (None)
queries_get(query, key) ==
    LET at == {i \in 1..Len(query) : query[i][1] = key}
    IN IF at = {} THEN <<FALSE, <<>>>>
       ELSE <<TRUE, query[CHOOSE i \in at : \A k \in at : k <= i][2]>>

\* a range of digits that lets 0 through
DigitsOutOfRange_zero_allowed(v) == Len(v) > 2 \/ (Len(v) = 2 /\ v # Decimal(10))

\* value == 0 || value > 10
DigitsOutOfRange(v) ==
    v = <<"0">> \/ Len(v) > 2 \/ (Len(v) = 2 /\ v # Decimal(10))

TotpErr(err) ==
    [ok |-> FALSE, err |-> err, secret |-> <<>>, algorithm |-> "", digits |-> 0,
     time_step |-> <<>>]

TotpConfig(secret, algorithm, digits, time_step) ==
    [ok |-> TRUE, err |-> "", secret |-> secret, algorithm |-> algorithm, digits |-> digits,
     time_step |-> time_step]

TotpConfig_from_otpauth_url(url) ==
    LET secret == queries_get(url.query, "secret")
        decoded == decode(secret[2])
        d == queries_get(url.query, "digits")
        dv == ParseUnsigned(d[2], U32Max)
        digits == IF d[1] THEN DecimalValue(dv[2], Len(dv[2])) ELSE DEFAULT_DIGITS
        p == queries_get(url.query, "period")
        pv == ParseUnsigned(p[2], U64Max)
        time_step == IF p[1] THEN pv[2] ELSE Decimal(DEFAULT_TIME_STEP)
        a == queries_get(url.query, "algorithm")
    IN IF url.scheme # "otpauth" THEN TotpErr("InvalidScheme")
       ELSE IF url.host # [some |-> TRUE, domain |-> "totp"] THEN TotpErr("InvalidHost")
       ELSE IF ~secret[1] THEN TotpErr("SecretNotFound")
       ELSE IF ~decoded[1] THEN TotpErr("DecodeSecret")
       ELSE IF d[1] /\ ~dv[1] THEN TotpErr("InvalidDigits")
       ELSE IF d[1] /\ DigitsOutOfRange(dv[2]) THEN TotpErr("InvalidDigits")
       ELSE IF p[1] /\ ~pv[1] THEN TotpErr("InvalidPeriod")
       ELSE IF p[1] /\ pv[2] = <<"0">> THEN TotpErr("InvalidPeriod")
       ELSE IF ~a[1] THEN TotpConfig(decoded[2], DEFAULT_ALGORITHM, digits, time_step)
       ELSE IF a[2] = <<"s", "h", "a", "1">>
       THEN TotpConfig(decoded[2], "Sha1", digits, time_step)
       ELSE IF a[2] = <<"s", "h", "a", "2", "5", "6">>
       THEN TotpConfig(decoded[2], "Sha256", digits, time_step)
       ELSE IF a[2] = <<"s", "h", "a", "5", "1", "2">>
       THEN TotpConfig(decoded[2], "Sha512", digits, time_step)
       ELSE TotpErr("InvalidAlgorithm")

\* the URLs handed to from_otpauth_url
UrlBases == {[scheme |-> "otpauth", host |-> [some |-> TRUE, domain |-> "totp"]],
             [scheme |-> "https", host |-> [some |-> TRUE, domain |-> "totp"]],
             [scheme |-> "otpauth", host |-> [some |-> TRUE, domain |-> "hotp"]],
             [scheme |-> "otpauth", host |-> [some |-> FALSE, domain |-> ""]]}

SecretValues == {<<"F", "O", "O", "B", "A", "R">>, <<"M", "Z", "X", "W", "6">>,
                 <<"F", "0", "O">>, <<>>}

DigitsValues == {<<"0">>, <<"1">>, <<"8">>, <<"1", "0">>, <<"1", "1">>, <<"x">>, <<>>,
                 <<"+", "8">>, <<"4", "2", "9", "4", "9", "6", "7", "2", "9", "6">>}

PeriodValues == {<<"0">>, <<"2", "0">>, <<"x">>, U64Max,
                 <<"1", "8", "4", "4", "6", "7", "4", "4", "0", "7", "3", "7", "0", "9", "5",
                   "5", "1", "6", "1", "6">>}

AlgorithmValues == {<<"s", "h", "a", "1">>, <<"s", "h", "a", "2", "5", "6">>,
                    <<"s", "h", "a", "5", "1", "2">>, <<"S", "H", "A", "1">>}

\* no pair of the key, or one pair of it with one of the values
Pairs(key, values) == {<<>>} \cup {<<<<key, v>>>> : v \in values}

\* from_otpauth_url(url) is called
TotpFromUrl(url) ==
    /\ totp = NoTotp
    /\ totp' = [pc |-> "done", url |-> url, result |-> TotpConfig_from_otpauth_url(url)]
    /\ UNCHANGED <<serviceVars, cryptoVars, derived, login, session>>

NextTotp ==
    \/ \E base \in UrlBases, secret \in Pairs("secret", SecretValues),
          digits \in Pairs("digits", DigitsValues), period \in Pairs("period", PeriodValues),
          algorithm \in Pairs("algorithm", AlgorithmValues) :
           TotpFromUrl([scheme |-> base.scheme, host |-> base.host,
                        query |-> digits \o secret \o algorithm \o period])
    \/ \E secret \in Pairs("secret", SecretValues), digits \in Pairs("digits", DigitsValues),
          again \in {<<"8">>, <<"0">>, <<"0", "8">>} :
           TotpFromUrl([scheme |-> "otpauth", host |-> [some |-> TRUE, domain |-> "totp"],
                        query |-> digits \o secret \o <<<<"digits", again>>>>])

SpecTotp == InitCipher /\ [][NextTotp]_vars

\* the value a URL gives to a key: that of the last pair of the key
Has(key) == \E i \in 1..Len(totp.url.query) : totp.url.query[i][1] = key

Param(key) ==
    LET q == totp.url.query
    IN q[CHOOSE i \in 1..Len(q) : q[i][1] = key /\ \A k \in (i + 1)..Len(q) : q[k][1] # key][2]

\* the texts that are the integers of a range: digits with an optional '+' and any
\* leading zeros
Written(chars, numbers) ==
    \E n \in numbers, zeros \in 0..1, plus \in {<<>>, <<"+">>} :
        chars = plus \o [i \in 1..zeros |-> "0"] \o n

SecretOk == Has("secret") /\ \A i \in 1..Len(Param("secret")) :
                                \E k \in 1..32 : Base32Chars[k] = Param("secret")[i]

DigitsOk == Has("digits") => Written(Param("digits"), {Decimal(n) : n \in 1..10})

PeriodOk == Has("period") => Written(Param("period"), {<<"2", "0">>, U64Max})

AlgorithmOk ==
    Has("algorithm") => Param("algorithm") \in {<<"s", "h", "a", "1">>,
                                                <<"s", "h", "a", "2", "5", "6">>,
                                                <<"s", "h", "a", "5", "1", "2">>}

\* the errors that match what is wrong with the URL
Faults ==
    (IF totp.url.scheme # "otpauth" THEN {"InvalidScheme"} ELSE {})
    \cup (IF totp.url.host # [some |-> TRUE, domain |-> "totp"] THEN {"InvalidHost"} ELSE {})
    \cup (IF ~Has("secret") THEN {"SecretNotFound"} ELSE {})
    \cup (IF Has("secret") /\ ~SecretOk THEN {"DecodeSecret"} ELSE {})
    \cup (IF ~DigitsOk THEN {"InvalidDigits"} ELSE {})
    \cup (IF ~PeriodOk THEN {"InvalidPeriod"} ELSE {})
    \cup (IF ~AlgorithmOk THEN {"InvalidAlgorithm"} ELSE {})

\* C18: from_otpauth_url returns a config exactly for a URL of scheme 'otpauth', host
\* 'totp', a base32 secret, digits absent or an integer (u32) in 1..=10, period absent
\* or an integer (u64) >= 1, and algorithm absent or one of sha1, sha256, sha512; the
\* config has the decoded secret, the digits, period and algorithm of the URL, and 6,
\* 30 and Sha1 for the absent ones; for every other URL it returns an error that
\* matches something wrong with the URL, and no config.
C18_OtpauthValidation ==
    totp.pc = "done" =>
        LET r == totp.result IN
        /\ r.ok <=> Faults = {}
        /\ ~r.ok => r.err \in Faults /\ r = TotpErr(r.err)
        /\ r.ok =>
             /\ r.secret = decode(Param("secret"))[2]
             /\ Len(r.secret) = (Len(Param("secret")) * 5) \div 8
             /\ r.digits \in 1..10
             /\ IF Has("digits") THEN Written(Param("digits"), {Decimal(r.digits)})
                ELSE r.digits = 6
             /\ IF Has("period") THEN Written(Param("period"), {r.time_step})
                ELSE r.time_step = <<"3", "0">>
             /\ r.algorithm = IF ~Has("algorithm") THEN "Sha1"
                              ELSE IF Param("algorithm") = <<"s", "h", "a", "1">> THEN "Sha1"
                              ELSE IF Param("algorithm") = <<"s", "h", "a", "2", "5", "6">>
                              THEN "Sha256" ELSE "Sha512"

\* the URL of the documentation: secret FOOBAR, sha256, 8 digits, a period of 20
C18_Witness ==
    /\ totp.pc = "done"
    /\ totp.url.query = <<<<"digits", <<"8">>>>, <<"secret", <<"F", "O", "O", "B", "A", "R">>>>,
                          <<"algorithm", <<"s", "h", "a", "2", "5", "6">>>>,
                          <<"period", <<"2", "0">>>>>>
    /\ totp.url.scheme = "otpauth"
    /\ totp.url.host.domain = "totp"
    /\ totp.result = TotpConfig(<<43, 156, 16>>, "Sha256", 8, <<"2", "0">>)

(***************************************************************************)
(* Client::request and Session::request with the refresh of the access     *)
(* token.  Times are seconds on a clock scaled down to 0..MaxSecs, beyond  *)
(* which SystemTime + Duration overflows.                                  *)
(***************************************************************************)
MaxNow == 2

MaxSecs == 4

MaxRequests == 2

NoAccessTokenData == [some |-> FALSE, access_token |-> "", expiry_time |-> 0]

AccessTokenData(access_token, expiry_time) ==
    [some |-> TRUE, access_token |-> access_token, expiry_time |-> expiry_time]

\* an expiry check that takes the second of the expiry as expired
token_has_expired_at_expiry(data, now) == data.expiry_time <= now

\* AccessTokenData::token_has_expired, with SystemTime::now() = now
token_has_expired(data, now) == data.expiry_time < now

\* the 'expires_in' of a token response: null, or a number of seconds
ExpiresIn == {[some |-> FALSE, secs |-> 0]}
             \cup {[some |-> TRUE, secs |-> n] : n \in {-1, 0, 1, MaxSecs}}

\* whether TokenResponse deserializes: expires_in is u64 for Client, Option<i64> for
\* Session
TokenResponseParses(kind, expires_in) ==
    kind = "Session" \/ (expires_in.some /\ expires_in.secs >= 0)

\* SystemTime::now() + Duration::from_secs(expires_in) for Client, get_token_expiry_time
\* for Session: <<TRUE, time>>, or <<FALSE, 0>> for the panic of the overflowing sum
expiry_time(kind, now, expires_in) ==
    LET secs == IF expires_in.some /\ expires_in.secs >= 0 THEN expires_in.secs ELSE 0
    IN IF now + secs > MaxSecs THEN <<FALSE, 0>> ELSE <<TRUE, now + secs>>

NoHeader == [status |-> "Pending", err |-> "", bearer |-> ""]

NoToken == [received |-> FALSE, access_token |-> "", refresh_token |-> "",
            expires_in |-> [some |-> FALSE, secs |-> 0]]

\* Client::builder()...build() and Session::builder()...build()
SessionBuild(kind, refresh_token, access_token_data) ==
    /\ session = NoSession
    /\ session' = [pc |-> "ready", kind |-> kind, now |-> 0, requests |-> 0,
                   refresh_token |-> refresh_token,
                   access_token_data |-> access_token_data,
                   seen |-> [access_token_data |-> NoAccessTokenData, now |-> 0],
                   attempted |-> FALSE, sent |-> "", token |-> NoToken,
                   result |-> NoHeader]
    /\ UNCHANGED <<serviceVars, cryptoVars, derived, login, totp>>

\* the system clock advances
Tick ==
    /\ session.pc # "idle"
    /\ session.now < MaxNow
    /\ session' = [session EXCEPT !.now = @ + 1]
    /\ UNCHANGED <<serviceVars, cryptoVars, derived, login, totp>>

\* the rest of request after the refresh: the unwrap and the Authorization header
Authorization(access_token_data) ==
    IF access_token_data.some
    THEN [status |-> "Ok", err |-> "", bearer |-> access_token_data.access_token]
    ELSE [status |-> "Panic", err |-> "called Option::unwrap() on a None value",
          bearer |-> ""]

\* request(method, url) is called: either it builds the request at once, or it sends
\* the refresh request and awaits the response
RequestCall ==
    /\ session.pc \in {"ready", "done"}
    /\ session.requests < MaxRequests
    /\ LET refresh_access_token ==
               IF session.access_token_data.some
               THEN token_has_expired(session.access_token_data, session.now)
               ELSE TRUE
           called == [session EXCEPT
                        !.requests = @ + 1,
                        !.seen = [access_token_data |-> session.access_token_data,
                                  now |-> session.now],
                        !.attempted = refresh_access_token,
                        !.token = NoToken]
       IN IF refresh_access_token
          THEN session' = [called EXCEPT !.pc = "refreshing",
                                         !.sent = session.refresh_token,
                                         !.result = NoHeader]
          ELSE session' = [called EXCEPT !.pc = "done", !.sent = "",
                                         !.result = Authorization(session.access_token_data)]
    /\ UNCHANGED <<serviceVars, cryptoVars, derived, login, totp>>

\* the response of the refresh arrives with a success status
RefreshReply(access_token, refresh_token, expires_in) ==
    /\ session.pc = "refreshing"
    /\ LET token == [received |-> TRUE, access_token |-> access_token,
                     refresh_token |-> refresh_token, expires_in |-> expires_in]
           expiry == expiry_time(session.kind, session.now, expires_in)
           data == AccessTokenData(access_token, expiry[2])
       IN IF ~TokenResponseParses(session.kind, expires_in)
          THEN session' = [session EXCEPT
                             !.pc = "done", !.token = token,
                             !.result = [status |-> "Err", err |-> "Request", bearer |-> ""]]
          ELSE IF ~expiry[1]
          THEN session' = [session EXCEPT
                             !.pc = "done", !.token = token,
                             !.refresh_token = refresh_token,
                             !.result = [status |-> "Panic",
                                         err |-> "overflow when adding duration to instant",
                                         bearer |-> ""]]
          ELSE session' = [session EXCEPT
                             !.pc = "done", !.token = token,
                             !.refresh_token = refresh_token,
                             !.access_token_data = data,
                             !.result = Authorization(data)]
    /\ UNCHANGED <<serviceVars, cryptoVars, derived, login, totp>>

\* the refresh request fails, or the server answers it with an error
RefreshFails(err) ==
    /\ session.pc = "refreshing"
    /\ session' = [session EXCEPT
                     !.pc = "done",
                     !.result = [status |-> "Err", err |-> err, bearer |-> ""]]
    /\ UNCHANGED <<serviceVars, cryptoVars, derived, login, totp>>

NextSession ==
    \/ \E kind \in {"Client", "Session"},
          data \in {NoAccessTokenData} \cup {AccessTokenData("t0", t) : t \in 0..MaxNow} :
           SessionBuild(kind, "r0", data)
    \/ Tick
    \/ RequestCall
    \/ \E response \in {<<"t1", "r1">>, <<"t2", "r2">>}, expires_in \in ExpiresIn :
           RefreshReply(response[1], response[2], expires_in)
    \/ \E err \in {"Request", "Response"} : RefreshFails(err)

SpecSession == InitCipher /\ [][NextSession]_vars

\* C19: in every call of request a refresh is attempted exactly when access_token_data
\* was None or its expiry_time was earlier than the time of the call; the unwrap never
\* panics, access_token_data being Some whenever the header is built; a failed refresh
\* makes request return that error with no request built and the token data as they
\* were; after a refresh that succeeded the header carries the access token of that
\* refresh, and without a refresh the one that was stored.
C19_Refresh ==
    session.pc \in {"refreshing", "done"} =>
        LET seen == session.seen
            r == session.result
        IN /\ session.attempted <=>
                 (~seen.access_token_data.some \/ seen.access_token_data.expiry_time < seen.now)
           /\ session.pc = "refreshing"
                 => r.status = "Pending" /\ session.sent = session.refresh_token
           /\ session.pc = "done" =>
                /\ r.status = "Panic" => r.err # "called Option::unwrap() on a None value"
                /\ r.status = "Ok" => session.access_token_data.some
                /\ (session.attempted /\ ~session.token.received)
                      => /\ r.status = "Err"
                         /\ r.err \in {"Request", "Response"}
                         /\ r.bearer = ""
                         /\ session.access_token_data = seen.access_token_data
                /\ (session.attempted /\ r.status = "Err")
                      => r.bearer = "" /\ session.access_token_data = seen.access_token_data
                /\ (session.attempted /\ r.status = "Ok")
                      => /\ session.token.received
                         /\ r.bearer = session.token.access_token
                         /\ session.access_token_data.access_token = session.token.access_token
                /\ ~session.attempted
                      => r.status = "Ok" /\ r.bearer = seen.access_token_data.access_token

\* a second request, made when the token of the first refresh has expired, carries
\* the token of the second refresh
C19_Witness ==
    /\ session.pc = "done"
    /\ session.requests = 2
    /\ session.attempted
    /\ session.seen.access_token_data.some
    /\ session.seen.access_token_data.access_token = "t1"
    /\ session.result.status = "Ok"
    /\ session.result.bearer = "t2"

RefreshEnds == session.pc = "refreshing" /\ session'.pc = "done"

TokensKept ==
    /\ session'.refresh_token = session.refresh_token
    /\ session'.access_token_data = session.access_token_data

TokensOfResponse ==
    /\ session'.token.received
    /\ session'.refresh_token = session'.token.refresh_token
    /\ session'.access_token_data.some
    /\ session'.access_token_data.access_token = session'.token.access_token

\* C24: a refresh that fails leaves refresh_token and access_token_data as they were,
\* a refresh that succeeds replaces both with the tokens of its response; whenever a
\* refresh has ended the stored pair is the pair stored before or the pair of the
\* response, never one of each.
C24_AtomicRefresh ==
    [][RefreshEnds =>
          /\ session'.result.status = "Err" => TokensKept
          /\ session'.result.status = "Ok" => TokensOfResponse
          /\ TokensKept \/ TokensOfResponse]_vars

\* what holds instead: the pair is kept or replaced as one unless the sum of the
\* expiry time overflows, and then the refresh token alone is the response's
C24_AtomicUnlessOverflow ==
    [][RefreshEnds =>
          /\ session'.result.status = "Err" => TokensKept
          /\ session'.result.status = "Ok" => TokensOfResponse
          /\ session'.result.status = "Panic" =>
                /\ session'.refresh_token = session'.token.refresh_token
                /\ session'.access_token_data = session.access_token_data
          /\ session'.result.status \in {"Err", "Ok", "Panic"}]_vars

(***************************************************************************)
(* AnonymousClient::register and Client::register.                         *)
(***************************************************************************)
DefaultKdfIterations == 100000

\* the rounds the stand-in of PBKDF2 runs for an iteration count: a count beyond the
\* bound runs as one round more than any count of the bound
Rounds(kdf_iterations) ==
    IF kdf_iterations <= MaxIterations THEN kdf_iterations ELSE MaxIterations + 1

\* Option<T>
None == [some |-> FALSE, v |-> 0]

Some(v) == [some |-> TRUE, v |-> v]

\* Option::unwrap_or
unwrap_or(option, default) == IF option.some THEN option.v ELSE default

\* make_protected_symmetric_key, with the keys and the IV the random generator gives
generate_protected_symmetric_key(source_key, enc, mac, iv) ==
    CHOOSE v \in {CipherString_encrypt(enc \o mac, keys[1], keys[2], iv).val :
                     keys \in {expand(source_key)}} : TRUE

\* register(data) is called: the keys are derived and the request is sent
RegisterCall(email, password, data_kdf_type, data_kdf_iterations, enc, mac, iv) ==
    /\ register = NoRegister
    /\ LET kdf_iterations == unwrap_or(data_kdf_iterations, DefaultKdfIterations)
           kdf_type == unwrap_or(data_kdf_type, Pbkdf2Sha256)
       IN \E source_key \in {SourceKey_new(email, password, kdf_type, Rounds(kdf_iterations))} :
          \E master_password_hash \in {MasterPasswordHash_new(source_key, password, kdf_type)} :
          \E protected_symmetric_key \in
                {generate_protected_symmetric_key(source_key, enc, mac, iv)} :
             register' =
               [pc |-> "sent",
                derivations |-> <<DeriveArgs(email, password, kdf_type, kdf_iterations)>>,
                source_key |-> source_key,
                req |-> [Email |-> email,
                         MasterPasswordHash |-> MasterPasswordHash_encode(master_password_hash),
                         Key |-> to_string(protected_symmetric_key),
                         Kdf |-> data_kdf_type,
                         KdfIterations |-> data_kdf_iterations],
                result |-> "Pending"]
    /\ UNCHANGED <<cryptoVars, derived, login, totp, session, cache, exec>>

\* the response arrives, or the request fails: parse_empty
RegisterReply(result) ==
    /\ register.pc = "sent"
    /\ register' = [register EXCEPT !.pc = "done", !.result = result]
    /\ UNCHANGED <<cryptoVars, derived, login, totp, session, cache, exec>>

NextRegister ==
    \/ \E email \in Emails, password \in Passwords, data_kdf_type \in {None, Some(Pbkdf2Sha256)},
          data_kdf_iterations \in {None} \cup {Some(n) : n \in Iterations},
          enc \in Keys256, mac \in Keys256, iv \in Ivs :
           RegisterCall(email, password, data_kdf_type, data_kdf_iterations, enc, mac, iv)
    \/ \E result \in {"Ok", "Request", "Response"} : RegisterReply(result)

SpecRegister == InitCipher /\ [][NextRegister]_vars

\* C21: the 'Kdf' and 'KdfIterations' fields of the register request are the kdf_type
\* and the kdf_iterations with which the source key of the same request was derived,
\* also when the caller left them unset and the defaults were applied.
C21_ReportsKdfUsed ==
    register.pc # "idle" =>
        /\ register.req.Kdf = Some(register.derivations[1].kdf_type)
        /\ register.req.KdfIterations = Some(register.derivations[1].kdf_iterations)

\* the fields of a caller who set both parameters are those of the derivation
C21_SetParameters ==
    (register.pc # "idle" /\ register.req.Kdf.some /\ register.req.KdfIterations.some) =>
        /\ register.req.Kdf.v = register.derivations[1].kdf_type
        /\ register.req.KdfIterations.v = register.derivations[1].kdf_iterations
        /\ register.source_key = pbkdf2(register.derivations[1].password, register.req.Email,
                                        register.req.KdfIterations.v)

(***************************************************************************)
(* The caches.  A resource (folder, cipher, collection) is its id and its  *)
(* revision; the account and the domains are one value each.  The JSON     *)
(* file of a JsonFileCache holds a document, or nothing while it is being  *)
(* rewritten.                                                              *)
(***************************************************************************)
MaxOps == 3

Ids == {1, 2}

Resource(id, revision) == [id |-> id, revision |-> revision]

ListFields == {"folders", "collections", "ciphers"}

\* MemoryCache::default() and JsonFileCacheData::default()
DefaultData ==
    [account |-> None, folders |-> <<>>, collections |-> <<>>, ciphers |-> <<>>,
     domains |-> None]

\* Vec::retain(|v| !ids.contains(&v.id))
Retain(list, ids) ==
    LET keep == {i \in 1..Len(list) : list[i].id \notin ids}
        nth(k) == CHOOSE i \in keep : Cardinality({m \in keep : m <= i}) = k
    IN [k \in 1..Cardinality(keep) |-> list[nth(k)]]

\* impl Cache for MemoryCache: the cache after the operation
MemoryCache_apply(self, op) ==
    CASE op.name = "save_account" -> [self EXCEPT !.account = Some(op.v)]
      [] op.name = "delete_account" -> [self EXCEPT !.account = None]
      [] op.name = "save" -> [self EXCEPT ![op.field] = @ \o op.values]
      [] op.name = "delete" -> [self EXCEPT ![op.field] = Retain(@, op.ids)]
      [] op.name = "save_domains" -> [self EXCEPT !.domains = Some(op.v)]
      [] op.name = "delete_domains" -> [self EXCEPT !.domains = None]
      [] op.name = "sync" ->
           [account |-> Some(op.sync.account), folders |-> op.sync.folders,
            collections |-> op.sync.collections, ciphers |-> op.sync.ciphers,
            domains |-> Some(op.sync.domains)]
      [] OTHER -> DefaultData

\* serde_json::to_vec(&data): the document of the data
to_vec(data) ==
    LET json(option) == IF option.some THEN [t |-> "number", n |-> option.v]
                        ELSE [t |-> "null", n |-> 0]
    IN [t |-> "object", account |-> json(data.account), folders |-> data.folders,
        collections |-> data.collections, ciphers |-> data.ciphers,
        domains |-> json(data.domains)]

\* read_data: fs::read and serde_json::from_slice, <<TRUE, data>> or <<FALSE, _>> (Error)
read_data(file) ==
    LET option(json) == IF json.t = "null" THEN None ELSE Some(json.n)
    IN IF file.t # "object" THEN <<FALSE, DefaultData>>
       ELSE <<TRUE, [account |-> option(file.account), folders |-> file.folders,
                     collections |-> file.collections, ciphers |-> file.ciphers,
                     domains |-> option(file.domains)]>>

\* closures of which save replaces the entries of the ids it saves
JsonFileCache_change_replacing(data, op) ==
    CASE op.name = "save_account" -> [data EXCEPT !.account = Some(op.v)]
      [] op.name = "delete_account" -> [data EXCEPT !.account = None]
      [] op.name = "save" ->
           [data EXCEPT ![op.field] =
              Retain(@, {op.values[i].id : i \in 1..Len(op.values)}) \o op.values]
      [] op.name = "delete" -> [data EXCEPT ![op.field] = Retain(@, op.ids)]
      [] op.name = "save_domains" -> [data EXCEPT !.domains = Some(op.v)]
      [] OTHER -> [data EXCEPT !.domains = None]

\* the closures handed to modify_data: the data after the change
JsonFileCache_change(data, op) ==
    CASE op.name = "save_account" -> [data EXCEPT !.account = Some(op.v)]
      [] op.name = "delete_account" -> [data EXCEPT !.account = None]
      [] op.name = "save" -> [data EXCEPT ![op.field] = @ \o op.values]
      [] op.name = "delete" -> [data EXCEPT ![op.field] = Retain(@, op.ids)]
      [] op.name = "save_domains" -> [data EXCEPT !.domains = Some(op.v)]
      [] OTHER -> [data EXCEPT !.domains = None]

\* what an operation of JsonFileCache writes, given what it read: sync and clear write
\* without reading
JsonFileCache_written(read, op) ==
    CASE op.name = "sync" ->
           to_vec([account |-> Some(op.sync.account), folders |-> op.sync.folders,
                   collections |-> op.sync.collections, ciphers |-> op.sync.ciphers,
                   domains |-> Some(op.sync.domains)])
      [] op.name = "clear" -> to_vec(DefaultData)
      [] OTHER -> to_vec(JsonFileCache_change(read, op))

\* impl Cache for JsonFileCache, run without another handle at work: <<TRUE, file>>,
\* or <<FALSE, file>> when the file could not be read
JsonFileCache_apply(file, op) ==
    IF op.name \in {"sync", "clear"} THEN <<TRUE, JsonFileCache_written(DefaultData, op)>>
    ELSE IF ~read_data(file)[1] THEN <<FALSE, file>>
    ELSE <<TRUE, JsonFileCache_written(read_data(file)[2], op)>>

\* the operations of the Cache trait with their arguments
SavedLists ==
    {<<Resource(1, 1)>>, <<Resource(1, 2)>>, <<Resource(2, 1)>>,
     <<Resource(1, 1), Resource(2, 1)>>}

SyncPayloads ==
    {[account |-> 1, folders |-> <<Resource(1, 2)>>, collections |-> <<>>,
      ciphers |-> <<Resource(2, 2)>>, domains |-> 1],
     [account |-> 2, folders |-> <<>>, collections |-> <<Resource(1, 1)>>,
      ciphers |-> <<>>, domains |-> 2]}

CacheOp(name, field, v, values, ids, sync) ==
    [name |-> name, field |-> field, v |-> v, values |-> values, ids |-> ids, sync |-> sync]

CacheOps ==
    {CacheOp(name, "", v, <<>>, {}, 0) : name \in {"save_account", "save_domains"}, v \in 1..2}
    \cup {CacheOp(name, "", 0, <<>>, {}, 0) : name \in {"delete_account", "delete_domains", "clear"}}
    \cup {CacheOp("save", field, 0, values, {}, 0) : field \in ListFields, values \in SavedLists}
    \cup {CacheOp("delete", field, 0, <<>>, ids, 0) : field \in ListFields, ids \in {{1}, {1, 2}}}
    \cup {CacheOp("sync", "", 0, <<>>, {}, sync) : sync \in SyncPayloads}

\* the revision saved last for each id of a list, 0 for none, after the operation
Latest(latest, op) ==
    LET last(list, id, old) ==
            LET at == {i \in 1..Len(list) : list[i].id = id}
            IN IF at = {} THEN old
               ELSE list[CHOOSE i \in at : \A k \in at : k <= i].revision
    IN [field \in ListFields |-> [id \in Ids |->
          CASE op.name = "save" /\ op.field = field -> last(op.values, id, latest[field][id])
            [] op.name = "delete" /\ op.field = field ->
                 IF id \in op.ids THEN 0 ELSE latest[field][id]
            [] op.name = "sync" -> last(op.sync[field], id, 0)
            [] op.name = "clear" -> 0
            [] OTHER -> latest[field][id]]]

\* MemoryCache::default() and JsonFileCache::new(path) on a file of the default data
CacheNew ==
    /\ cache = NoCache
    /\ cache' = [pc |-> "ready", memory |-> DefaultData, file |-> to_vec(DefaultData),
                 latest |-> [field \in ListFields |-> [id \in Ids |-> 0]],
                 ops |-> 0, last |-> "", tasks |-> <<>>]
    /\ UNCHANGED <<cryptoVars, derived, login, totp, session, register, exec>>

\* one operation of the Cache trait, called on both caches
CacheCall(op) ==
    /\ cache.pc = "ready"
    /\ cache.tasks = <<>>
    /\ cache.ops < MaxOps
    /\ cache' = [cache EXCEPT !.memory = MemoryCache_apply(@, op),
                              !.file = JsonFileCache_apply(@, op)[2],
                              !.latest = Latest(@, op),
                              !.ops = @ + 1,
                              !.last = op.name]
    /\ UNCHANGED <<cryptoVars, derived, login, totp, session, register, exec>>

NextCache ==
    \/ CacheNew
    \/ \E op \in CacheOps : CacheCall(op)

SpecCache == InitCipher /\ [][NextCache]_vars

\* C22: after any sequence of operations each list of the MemoryCache holds at most one
\* entry per id, and the entry of an id is the one saved last.
C22_KeyValueStore ==
    cache.pc = "ready" =>
        \A field \in ListFields :
            LET list == cache.memory[field] IN
            /\ \A i, k \in 1..Len(list) : list[i].id = list[k].id => i = k
            /\ \A i \in 1..Len(list) : list[i].revision = cache.latest[field][list[i].id]

\* what holds instead: every id saved and not deleted since has an entry, its last
\* entry is the one saved last, and a deleted id has none
C22_LastEntry ==
    cache.pc = "ready" =>
        \A field \in ListFields, id \in Ids :
            LET list == cache.memory[field]
                at == {i \in 1..Len(list) : list[i].id = id}
            IN IF cache.latest[field][id] = 0 THEN at = {}
               ELSE /\ at # {}
                    /\ list[CHOOSE i \in at : \A k \in at : k <= i].revision
                         = cache.latest[field][id]

Truncated == [t |-> "empty"]

SharedOps ==
    {CacheOp("save", "folders", 0, <<Resource(1, 2)>>, {}, 0),
     CacheOp("save", "ciphers", 0, <<Resource(2, 1)>>, {}, 0),
     CacheOp("save_account", "", 1, <<>>, {}, 0),
     CacheOp("delete", "folders", 0, <<>>, {1}, 0),
     CacheOp("clear", "", 0, <<>>, {}, 0)}

\* two clones of a JsonFileCache, an operation called on each
FileShare(initial, first, second) ==
    /\ cache = NoCache
    /\ cache' = [pc |-> "shared", initial |-> to_vec(initial), file |-> to_vec(initial),
                 tasks |-> <<[op |-> first, pc |-> "called", data |-> DefaultData],
                             [op |-> second, pc |-> "called", data |-> DefaultData]>>]
    /\ UNCHANGED <<cryptoVars, derived, login, totp, session, register, exec>>

\* modify_data: read_data().await?; sync and clear do not read
TaskRead(i) ==
    /\ cache.pc = "shared"
    /\ cache.tasks[i].pc = "called"
    /\ LET r == read_data(cache.file)
       IN IF cache.tasks[i].op.name \in {"sync", "clear"}
          THEN cache' = [cache EXCEPT !.tasks[i].pc = "read"]
          ELSE IF ~r[1] THEN cache' = [cache EXCEPT !.tasks[i].pc = "failed"]
          ELSE cache' = [cache EXCEPT !.tasks[i].pc = "read", !.tasks[i].data = r[2]]
    /\ UNCHANGED <<cryptoVars, derived, login, totp, session, register, exec>>

\* write_data: fs::write creates the file anew, which empties it
TaskTruncate(i) ==
    /\ cache.pc = "shared"
    /\ cache.tasks[i].pc = "read"
    /\ cache' = [cache EXCEPT !.tasks[i].pc = "truncated", !.file = Truncated]
    /\ UNCHANGED <<cryptoVars, derived, login, totp, session, register, exec>>

\* write_data: fs::write writes the changed data
TaskWrite(i) ==
    /\ cache.pc = "shared"
    /\ cache.tasks[i].pc = "truncated"
    /\ cache' = [cache EXCEPT
                   !.tasks[i].pc = "done",
                   !.file = JsonFileCache_written(cache.tasks[i].data, cache.tasks[i].op)]
    /\ UNCHANGED <<cryptoVars, derived, login, totp, session, register, exec>>

NextFile ==
    \/ \E initial \in {DefaultData, [DefaultData EXCEPT !.folders = <<Resource(1, 1)>>]},
          first \in SharedOps, second \in SharedOps : FileShare(initial, first, second)
    \/ \E i \in 1..2 : TaskRead(i)
    \/ \E i \in 1..2 : TaskTruncate(i)
    \/ \E i \in 1..2 : TaskWrite(i)

SpecFile == InitCipher /\ [][NextFile]_vars

BothEnded == cache.pc = "shared" /\ \A i \in 1..2 : cache.tasks[i].pc \in {"done", "failed"}

\* C27: when two operations have run concurrently on handles of the same path, both
\* have succeeded and the file holds the effect of both: what one after the other, in
\* one of the two orders, would have left.
C27_NoLostUpdate ==
    BothEnded =>
        LET first == cache.tasks[1].op
            second == cache.tasks[2].op
        IN /\ \A i \in 1..2 : cache.tasks[i].pc = "done"
           /\ cache.file \in
                {JsonFileCache_apply(JsonFileCache_apply(cache.initial, first)[2], second)[2],
                 JsonFileCache_apply(JsonFileCache_apply(cache.initial, second)[2], first)[2]}

\* what holds instead: the file is a document that some operation wrote
C27_LastWriter ==
    BothEnded =>
        \/ \E i \in 1..2 : /\ cache.tasks[i].pc = "done"
                           /\ cache.file = JsonFileCache_written(cache.tasks[i].data,
                                                                 cache.tasks[i].op)
        \/ cache.file = Truncated /\ \A i \in 1..2 : cache.tasks[i].pc = "failed"

(***************************************************************************)
(* The form of the token request that login builds from LoginData, for     *)
(* AnonymousClient::login (rwarden/src/client.rs) and Client::login        *)
(* (rwarden/src/lib.rs).                                                   *)
(***************************************************************************)
\* enum DeviceType, #[repr(u8)]: the variants used here
DeviceType == [Android |-> 0, Ios |-> 1, LinuxDesktop |-> 8, SafariExtension |-> 20]

\* enum TwoFactorProvider, #[repr(u8)]
TwoFactorProvider ==
    [Authenticator |-> 0, Email |-> 1, Duo |-> 2, YubiKey |-> 3, U2f |-> 4, Remember |-> 5,
     OrganizationDuo |-> 6, WebAuthn |-> 7]

Unset == [some |-> FALSE, v |-> ""]

Absent == [some |-> FALSE, v |-> <<>>]

\* LoginData: the optional fields and two_factor_remember
LoginDatas ==
    [device_name : {Unset, Some("laptop")},
     device_type : {Unset} \cup {Some(v) : v \in {"Android", "LinuxDesktop", "SafariExtension"}},
     two_factor_provider : {Unset} \cup {Some(v) : v \in {"Authenticator", "Email", "WebAuthn"}},
     two_factor_token : {Unset, Some("123456")},
     two_factor_remember : BOOLEAN]

\* the optional entries of req, as login inserts them
login_req(kind, data) ==
    LET device_type == IF data.device_type.some
                       THEN Some(Decimal(DeviceType[data.device_type.v])) ELSE Absent
        two_factor_provider ==
            IF kind = "AnonymousClient"
            THEN IF data.two_factor_provider.some
                 THEN Some(Decimal(TwoFactorProvider[data.two_factor_provider.v])) ELSE Absent
            ELSE IF data.device_type.some
                 THEN Some(Decimal(DeviceType[data.device_type.v])) ELSE Absent
    IN [grant_type |-> "password",
        scope |-> "api offline_access",
        DeviceName |-> data.device_name,
        DeviceType |-> device_type,
        TwoFactorProvider |-> two_factor_provider,
        TwoFactorToken |-> data.two_factor_token,
        TwoFactorRemember |-> IF data.two_factor_remember THEN Some("1") ELSE Unset]

\* login(data) has received the prelogin and sends the token request
LoginSend(kind, data) ==
    /\ exec = NoExec
    /\ exec' = [pc |-> "token", kind |-> kind, data |-> data, req |-> login_req(kind, data),
                result |-> "Pending"]
    /\ UNCHANGED <<cryptoVars, derived, login, totp, session, register, cache>>

\* the token response arrives, or the request fails
LoginEnds(result) ==
    /\ exec.pc = "token"
    /\ exec' = [exec EXCEPT !.pc = "logged", !.result = result]
    /\ UNCHANGED <<cryptoVars, derived, login, totp, session, register, cache>>

NextLoginData ==
    \/ \E kind \in {"AnonymousClient", "Client"}, data \in LoginDatas : LoginSend(kind, data)
    \/ \E result \in {"Ok"} \cup LoginErrors : LoginEnds(result)

SpecLoginData == InitCipher /\ [][NextLoginData]_vars

LoginSent == exec.pc \in {"token", "logged"}

\* C25: the token request has a TwoFactorProvider field exactly when
\* LoginData.two_factor_provider is Some(p), its value the numeric code of p, whatever
\* device_type is; and a DeviceType field exactly when device_type is Some(d), its
\* value the numeric code of d.
C25_TwoFactorChoice ==
    LoginSent =>
        /\ exec.req.TwoFactorProvider.some <=> exec.data.two_factor_provider.some
        /\ exec.data.two_factor_provider.some =>
              exec.req.TwoFactorProvider.v =
                  Decimal(TwoFactorProvider[exec.data.two_factor_provider.v])
        /\ exec.req.DeviceType.some <=> exec.data.device_type.some
        /\ exec.data.device_type.some =>
              exec.req.DeviceType.v = Decimal(DeviceType[exec.data.device_type.v])

\* what holds instead: AnonymousClient::login sends the caller's choice, Client::login
\* sends the device type under both names
C25_PerClient ==
    LoginSent =>
        /\ exec.req.DeviceType.some <=> exec.data.device_type.some
        /\ exec.data.device_type.some =>
              exec.req.DeviceType.v = Decimal(DeviceType[exec.data.device_type.v])
        /\ exec.kind = "Client" => exec.req.TwoFactorProvider = exec.req.DeviceType
        /\ exec.kind = "AnonymousClient" =>
              /\ exec.req.TwoFactorProvider.some <=> exec.data.two_factor_provider.some
              /\ exec.data.two_factor_provider.some =>
                    exec.req.TwoFactorProvider.v =
                        Decimal(TwoFactorProvider[exec.data.two_factor_provider.v])

(***************************************************************************)
(* The paginated list requests: folder::GetAll, cipher::GetAllDetails and  *)
(* cipher::BulkRestore, each a try_stream! around the loop that            *)
(* request_stream! also expands to.  The stream runs as its consumer polls *)
(* it.                                                                     *)
(***************************************************************************)
MaxPages == 3

StreamKinds == {"folder::GetAll", "cipher::GetAllDetails", "cipher::BulkRestore"}

\* whether the loop body saves the page: save_folders, save_ciphers, or nothing
saves_page(kind) == kind \in {"folder::GetAll", "cipher::GetAllDetails"}

\* a loop condition without the first iteration
stream_continues_with_token_only(continuation_token, is_first_iteration) ==
    continuation_token.some

\* while continuation_token.is_some() || is_first_iteration
stream_continues(continuation_token, is_first_iteration) ==
    continuation_token.some \/ is_first_iteration

Item(ok, data, err) == [ok |-> ok, data |-> data, err |-> err]

\* execute() returns the stream; nothing has run yet
StreamExecute(kind) ==
    /\ exec = NoExec
    /\ exec' = [pc |-> "loop", kind |-> kind, continuation_token |-> Unset,
                is_first_iteration |-> TRUE, sent |-> <<>>, pages |-> <<>>,
                saved |-> <<>>, yielded |-> <<>>, log |-> <<>>]
    /\ UNCHANGED <<cryptoVars, derived, login, totp, session, register, cache>>

\* the loop is entered: session.request(..).await? (which may have to refresh the
\* access token and fail), the continuationToken query, send()
StreamSend(request_ok) ==
    /\ exec.pc = "loop"
    /\ stream_continues(exec.continuation_token, exec.is_first_iteration)
    /\ Len(exec.sent) < MaxPages
    /\ IF request_ok
       THEN exec' = [exec EXCEPT !.pc = "awaiting",
                                 !.sent = Append(@, exec.continuation_token)]
       ELSE exec' = [exec EXCEPT !.pc = "ended",
                                 !.yielded = Append(@, Item(FALSE, <<>>, "Request")),
                                 !.log = Append(@, <<"error", Len(exec.sent) + 1>>)]
    /\ UNCHANGED <<cryptoVars, derived, login, totp, session, register, cache>>

\* the response is a page: parse, save to the cache, take its token, yield its data
StreamReply(data, continuation_token, cache_ok) ==
    /\ exec.pc = "awaiting"
    /\ LET n == Len(exec.sent)
           received == [exec EXCEPT
                          !.pages = Append(@, [data |-> data,
                                               continuation_token |-> continuation_token])]
       IN IF saves_page(exec.kind) /\ ~cache_ok
          THEN exec' = [received EXCEPT !.pc = "ended",
                                        !.yielded = Append(@, Item(FALSE, <<>>, "Cache")),
                                        !.log = Append(@, <<"error", n>>)]
          ELSE exec' = [received EXCEPT
                          !.pc = "loop",
                          !.saved = IF saves_page(exec.kind) THEN @ \o data ELSE @,
                          !.continuation_token = continuation_token,
                          !.is_first_iteration = FALSE,
                          !.yielded = Append(@, Item(TRUE, data, "")),
                          !.log = IF saves_page(exec.kind)
                                  THEN @ \o <<<<"save", n>>, <<"yield", n>>>>
                                  ELSE Append(@, <<"yield", n>>)]
    /\ UNCHANGED <<cryptoVars, derived, login, totp, session, register, cache>>

\* send fails, the status is an error, or the body does not parse
StreamFails(err) ==
    /\ exec.pc = "awaiting"
    /\ exec' = [exec EXCEPT !.pc = "ended",
                            !.yielded = Append(@, Item(FALSE, <<>>, err)),
                            !.log = Append(@, <<"error", Len(exec.sent)>>)]
    /\ UNCHANGED <<cryptoVars, derived, login, totp, session, register, cache>>

\* the loop condition is false: the stream ends
StreamEnd ==
    /\ exec.pc = "loop"
    /\ ~stream_continues(exec.continuation_token, exec.is_first_iteration)
    /\ exec' = [exec EXCEPT !.pc = "ended"]
    /\ UNCHANGED <<cryptoVars, derived, login, totp, session, register, cache>>

NextStream ==
    \/ \E kind \in StreamKinds : StreamExecute(kind)
    \/ \E request_ok \in BOOLEAN : StreamSend(request_ok)
    \/ \E data \in {<<>>, <<Resource(1, 1)>>, <<Resource(1, 2), Resource(2, 1)>>},
          continuation_token \in {Unset, Some("next"), Some("")},
          cache_ok \in BOOLEAN :
           StreamReply(data, continuation_token, cache_ok)
    \/ \E err \in {"Request", "Response"} : StreamFails(err)
    \/ StreamEnd

\* the consumer polls the stream until it ends
SpecStream == InitCipher /\ [][NextStream]_vars /\ WF_vars(NextStream)

Streaming == exec.pc \in {"loop", "awaiting", "ended"}

StreamEnded == exec.pc = "ended"

\* the last page had no continuation token, or the last item is an error
StreamExhausted ==
    /\ Streaming
    /\ \/ /\ exec.pc = "loop"
          /\ exec.pages # <<>>
          /\ ~exec.pages[Len(exec.pages)].continuation_token.some
       \/ /\ exec.yielded # <<>>
          /\ ~exec.yielded[Len(exec.yielded)].ok

\* the requests, pages and items of a stream; saving is whether the kind is one whose
\* pages are saved
StreamOrder(saving) ==
    LET sent == exec.sent
        pages == exec.pages
        yielded == exec.yielded
        log == exec.log
    IN /\ exec.pc # "loop" \/ ~exec.is_first_iteration => sent # <<>> \/ yielded # <<>>
       /\ sent # <<>> => ~sent[1].some
       /\ \A i \in 2..Len(sent) :
             pages[i - 1].continuation_token.some /\ sent[i] = pages[i - 1].continuation_token
       /\ Len(sent) \in {Len(pages), Len(pages) + 1}
       /\ (exec.pc = "loop" /\ pages # <<>>) =>
             exec.continuation_token = pages[Len(pages)].continuation_token
       /\ \A i \in 1..Len(yielded) :
             /\ ~yielded[i].ok => i = Len(yielded) /\ exec.pc = "ended"
             /\ yielded[i].ok => yielded[i].data = pages[i].data
       /\ \A i \in 1..Len(pages) : i <= Len(yielded)
       /\ \A j \in 1..Len(log) :
             log[j][1] = "yield" =>
                IF saving THEN j > 1 /\ log[j - 1] = <<"save", log[j][2]>>
                ELSE \A k \in 1..Len(log) : log[k][1] # "save"
       /\ saving => \A i \in 1..Len(yielded) :
             yielded[i].ok => \E k \in Len(yielded[i].data)..Len(exec.saved) :
                 SubSeq(exec.saved, k - Len(yielded[i].data) + 1, k) = yielded[i].data
       /\ ~saving => exec.saved = <<>>
       /\ exec.pc = "ended" =>
             \/ yielded # <<>> /\ ~yielded[Len(yielded)].ok
             \/ pages # <<>> /\ ~pages[Len(pages)].continuation_token.some

\* C28 as stated: in every paginated stream, BulkRestore included, the first request
\* carries no continuation token, each page is saved to the cache and then yielded,
\* each further request carries the token of the last response, and the stream ends
\* after the first page without token or the first error.
C28_SavedThenYielded == Streaming => StreamOrder(TRUE)

\* C28: the first iteration always runs and its request carries no continuation token;
\* GetAll and GetAllDetails save each page to the cache and then yield it, BulkRestore
\* yields it and leaves the cache alone; a further request is sent only after a
\* response with a continuation token and carries exactly that token; the stream has
\* ended only after a page without token or after yielding an error, which is then its
\* last item; and once such a page or an error has come, the stream ends.
C28_PagedStream ==
    /\ [](Streaming => StreamOrder(saves_page(exec.kind)))
    /\ (StreamExhausted ~> StreamEnded)

\* GetAllDetails has yielded three pages, the last one without token, and ended
C28_Witness ==
    /\ exec.pc = "ended"
    /\ exec.kind = "cipher::GetAllDetails"
    /\ Len(exec.yielded) = MaxPages
    /\ exec.sent = <<Unset, Some("next"), Some("")>>
    /\ exec.yielded[MaxPages].ok
    /\ exec.log = <<<<"save", 1>>, <<"yield", 1>>, <<"save", 2>>, <<"yield", 2>>,
                    <<"save", 3>>, <<"yield", 3>>>>

\* BulkRestore has yielded a page
C28_WitnessRestore ==
    /\ Streaming
    /\ exec.kind = "cipher::BulkRestore"
    /\ exec.yielded # <<>>
    /\ exec.yielded[1].ok
    /\ exec.yielded[1].data # <<>>

(***************************************************************************)
(* The delete requests: cipher::Delete, cipher::BulkDelete and             *)
(* folder::Delete, on a session whose cache is a MemoryCache or a          *)
(* JsonFileCache.                                                          *)
(***************************************************************************)
DeleteKinds == {"cipher::Delete", "cipher::BulkDelete", "folder::Delete"}

\* a request that always deletes ciphers
Delete_cache_call_ciphers(kind, ids) == CacheOp("delete", "ciphers", 0, <<>>, ids, 0)

\* the call on cache_mut(): delete_ciphers(ids) or delete_folders(once(id))
Delete_cache_call(kind, ids) ==
    CacheOp("delete", IF kind = "folder::Delete" THEN "folders" ELSE "ciphers", 0, <<>>, ids, 0)

\* the method and path of the request
Delete_request(kind, ids, soft_delete) ==
    [method |-> IF kind # "folder::Delete" /\ soft_delete THEN "PUT" ELSE "DELETE",
     path |-> CASE kind = "cipher::Delete" ->
                     IF soft_delete THEN "ciphers/{id}/delete" ELSE "ciphers/{id}"
                [] kind = "cipher::BulkDelete" ->
                     IF soft_delete THEN "ciphers/delete" ELSE "ciphers"
                [] OTHER -> "folders/{id}",
     ids |-> ids]

\* the session's cache runs an operation: <<TRUE, cache>>, or <<FALSE, cache>> when it
\* returns an error
Store_apply(store, op) ==
    IF store.kind = "MemoryCache"
    THEN <<TRUE, [store EXCEPT !.memory = MemoryCache_apply(@, op)]>>
    ELSE LET r == JsonFileCache_apply(store.file, op)
         IN <<r[1], [store EXCEPT !.file = r[2]]>>

Stores ==
    LET full == [DefaultData EXCEPT !.folders = <<Resource(1, 1), Resource(2, 1)>>,
                                    !.ciphers = <<Resource(1, 1), Resource(2, 2),
                                                  Resource(1, 3)>>]
    IN {[kind |-> "MemoryCache", memory |-> data, file |-> Truncated] :
           data \in {DefaultData, full}}
       \cup {[kind |-> "JsonFileCache", memory |-> DefaultData, file |-> file] :
                file \in {to_vec(DefaultData), to_vec(full), Truncated}}

\* execute(): session.request(method, url).await?, then send()
DeleteExecute(kind, ids, soft_delete, store, request_ok) ==
    /\ exec = NoExec
    /\ kind # "cipher::BulkDelete" => Cardinality(ids) = 1
    /\ kind = "folder::Delete" => ~soft_delete
    /\ LET called == [pc |-> "delete_sent", kind |-> kind, ids |-> ids,
                      soft_delete |-> soft_delete, store |-> store, before |-> store,
                      request |-> Delete_request(kind, ids, soft_delete),
                      sent |-> TRUE, success |-> FALSE, calls |-> <<>>,
                      result |-> [status |-> "Pending", err |-> ""]]
       IN IF request_ok THEN exec' = called
          ELSE exec' = [called EXCEPT !.pc = "delete_done", !.sent = FALSE,
                                      !.result = [status |-> "Err", err |-> "Request"]]
    /\ UNCHANGED <<cryptoVars, derived, login, totp, session, register, cache>>

\* the response arrives: parse_empty, then the delete on the cache
DeleteReply(success) ==
    /\ exec.pc = "delete_sent"
    /\ LET op == Delete_cache_call(exec.kind, exec.ids)
           r == Store_apply(exec.store, op)
       IN IF ~success
          THEN exec' = [exec EXCEPT !.pc = "delete_done",
                                    !.result = [status |-> "Err", err |-> "Response"]]
          ELSE exec' = [exec EXCEPT
                          !.pc = "delete_done",
                          !.success = TRUE,
                          !.calls = Append(@, op),
                          !.store = r[2],
                          !.result = IF r[1] THEN [status |-> "Ok", err |-> ""]
                                     ELSE [status |-> "Err", err |-> "Cache"]]
    /\ UNCHANGED <<cryptoVars, derived, login, totp, session, register, cache>>

\* send fails
DeleteFails ==
    /\ exec.pc = "delete_sent"
    /\ exec' = [exec EXCEPT !.pc = "delete_done",
                            !.result = [status |-> "Err", err |-> "Request"]]
    /\ UNCHANGED <<cryptoVars, derived, login, totp, session, register, cache>>

NextDelete ==
    \/ \E kind \in DeleteKinds, ids \in {{}, {1}, {2}, {1, 2}}, soft_delete \in BOOLEAN,
          store \in Stores, request_ok \in BOOLEAN :
           DeleteExecute(kind, ids, soft_delete, store, request_ok)
    \/ \E success \in BOOLEAN : DeleteReply(success)
    \/ DeleteFails

SpecDelete == InitCipher /\ [][NextDelete]_vars

Deleting == exec.pc \in {"delete_sent", "delete_done"}

\* the lists of the session's cache, <<FALSE, _>> for a file that cannot be read
StoreData(store) ==
    IF store.kind = "MemoryCache" THEN <<TRUE, store.memory>> ELSE read_data(store.file)

\* C29: the delete requests call the cache's delete_* only after the request returned
\* a success status, once, with exactly the ids of the request, and the entries of
\* those ids are then gone from the list and nothing else has changed; when the
\* building of the request, the send or the status check fails, the cache is as it
\* was, no cache call was made and that error is returned; a failure of the cache
\* after the success of the server is returned as Error::Cache.
C29_DeleteAfterSuccess ==
    Deleting =>
        LET field == IF exec.kind = "folder::Delete" THEN "folders" ELSE "ciphers"
            before == StoreData(exec.before)
            after == StoreData(exec.store)
        IN /\ exec.pc = "delete_sent" => exec.calls = <<>> /\ exec.store = exec.before
           /\ exec.calls # <<>> =>
                 /\ exec.sent /\ exec.success
                 /\ Len(exec.calls) = 1
                 /\ exec.calls[1].name = "delete"
                 /\ exec.calls[1].field = field
                 /\ exec.calls[1].ids = exec.ids
           /\ exec.pc = "delete_done" =>
                 /\ ~exec.success =>
                       /\ exec.calls = <<>>
                       /\ exec.store = exec.before
                       /\ exec.result.status = "Err"
                       /\ exec.result.err \in {"Request", "Response"}
                 /\ exec.success => exec.calls # <<>> /\ exec.result.err \in {"", "Cache"}
                 /\ exec.result.status = "Ok" =>
                       /\ exec.success
                       /\ before[1] /\ after[1]
                       /\ after[2] = [before[2] EXCEPT ![field] = Retain(@, exec.ids)]
                       /\ \A i \in 1..Len(after[2][field]) : after[2][field][i].id \notin exec.ids
                 /\ exec.result.err = "Cache" =>
                       /\ exec.success
                       /\ exec.store.kind = "JsonFileCache"
                       /\ ~before[1]
                       /\ exec.store = exec.before

\* a bulk delete of both ids on a file cache that holds them
C29_Witness ==
    /\ exec.pc = "delete_done"
    /\ exec.kind = "cipher::BulkDelete"
    /\ exec.ids = {1, 2}
    /\ exec.store.kind = "JsonFileCache"
    /\ exec.result.status = "Ok"
    /\ StoreData(exec.before)[2].ciphers # <<>>
    /\ StoreData(exec.store)[2].ciphers = <<>>
    /\ StoreData(exec.store)[2].folders # <<>>

\* a folder delete whose cache call deleted the folder and kept the ciphers
C29_WitnessFolder ==
    /\ exec.pc = "delete_done"
    /\ exec.kind = "folder::Delete"
    /\ exec.ids = {1}
    /\ exec.result.status = "Ok"
    /\ StoreData(exec.store)[2].folders = <<Resource(2, 1)>>
    /\ Len(StoreData(exec.store)[2].ciphers) = 3

\* the server deleted, the cache file could not be read
C29_WitnessCacheError ==
    /\ exec.pc = "delete_done"
    /\ exec.success
    /\ exec.result.err = "Cache"

====
